---- MODULE Spec2Model ----
(***************************************************************************)
(* Up Ahead planner: date extraction (src/src/utils/dateExtractor.js) and  *)
(* the normalise / aggregate pipeline (src/src/services/upAheadService.js).*)
(*                                                                         *)
(* Texts are strings; a character is a string of length 1 and the i-th     *)
(* character of s is SubSeq(s, i, i).  A Date is an instant, counted in    *)
(* minutes since 1970-01-01T00:00Z; the client's time zone is the offset   *)
(* tz (minutes east of UTC) and local calendar fields are derived from it. *)
(* An absent value (null) is the empty sequence, a present one <<v>>.      *)
(***************************************************************************)
EXTENDS Integers, Sequences, FiniteSets, TLC

VARIABLES
    now,           \* the clock: Date.now() / new Date(), an instant
    tz,            \* the client's UTC offset in minutes
    dtext,         \* extractDate called on its own: the text argument
    dpub,          \* extractDate: the pubDate argument (<<>> or <<instant>>)
    dres,          \* extractDate: the value returned (<<>> or <<record>>)
    dpc,           \* the caller of extractDate: "idle" | "call" | "done" | "expanded"
    dmax,          \* expandDateKeys: the maxDays argument
    dkeys,         \* expandDateKeys: the keys returned
    settings,      \* the settings object handed to fetchUpAheadData
    fetched,       \* the fetched feeds, flattened: a sequence of [item, config]
    allItems,      \* the normalised items (results.flat())
    pc,            \* fetchUpAheadData: "idle" | "fetched" | "processing" | "done" | "returned"
    idx,           \* processUpAheadData: the forEach position
    seenIds,       \* processUpAheadData: ids seen so far
    sections,      \* processUpAheadData: category -> list of display items
    timelineMap,   \* processUpAheadData: the days, in insertion order
    outcome,       \* for each item passed by forEach, where its pass returned
    organizedData, \* the value processUpAheadData returned (<<>> before)
    wbCache,       \* _wbCache: the words a pattern is kept for
    run,           \* the number of the call of processUpAheadData on these items
    firstData,     \* the value the call before returned (<<>> when none)
    storage,       \* localStorage[STORAGE_KEY]: <<>> (no entry) or <<content>>
    fault,         \* how localStorage fails: "none" | "quota" | "denied"
    wpc,           \* per tab: "idle", or "loaded" between the load and the save of an operation
    wop,           \* per tab: the planner operation in progress
    wdata,         \* per tab: the data object the operation in progress holds
    wargs,         \* per tab: <<>> or the arguments of the last merge the tab began
    sret,          \* the planner operation that completed last, and how
    nops,          \* the number of planner operations begun
    mounted,       \* the Up Ahead page is mounted
    pageData,      \* UpAheadPage: the state data, <<>> (null) or <<"empty">> | <<"full">>
    loading,       \* UpAheadPage: the state loading
    hasFetched,    \* UpAheadPage: hasFetched.current
    settingsHash,  \* JSON.stringify(settings.upAhead) of the mounted page
    dataCache,     \* dataCache: settingsHash -> <<>> or <<[data, fresh]>>
    inflight       \* the calls of fetchUpAheadData the page awaits

dvars == <<now, tz, dtext, dpub, dres, dpc, dmax, dkeys>>

pvars == <<settings, fetched, allItems, pc, idx, seenIds, sections, timelineMap, outcome,
           organizedData, wbCache, run, firstData>>

svars == <<storage, fault, wpc, wop, wdata, wargs, sret, nops>>

uvars == <<mounted, pageData, loading, hasFetched, settingsHash, dataCache, inflight>>

vars == <<now, tz, dtext, dpub, dres, dpc, dmax, dkeys, settings, fetched, allItems, pc, idx, seenIds,
          sections, timelineMap, outcome, organizedData, wbCache, run, firstData, storage, fault,
          wpc, wop, wdata, wargs, sret, nops, mounted, pageData, loading, hasFetched, settingsHash,
          dataCache, inflight>>

(***************************************************************************)
(* Characters and strings                                                  *)
(***************************************************************************)
Digits == {"0", "1", "2", "3", "4", "5", "6", "7", "8", "9"}

LowerLetters ==
    {"a", "b", "c", "d", "e", "f", "g", "h", "i", "j", "k", "l", "m",
     "n", "o", "p", "q", "r", "s", "t", "u", "v", "w", "x", "y", "z"}

UpperLetters ==
    {"A", "B", "C", "D", "E", "F", "G", "H", "I", "J", "K", "L", "M",
     "N", "O", "P", "Q", "R", "S", "T", "U", "V", "W", "X", "Y", "Z"}

\* the regular expression class \w
WordChars == Digits \cup LowerLetters \cup UpperLetters \cup {"_"}

\* the regular expression class \s (the members that occur in the texts)
SpaceChars == {" ", "\t", "\n"}

CharAt(s, i) == IF i >= 1 /\ i <= Len(s) THEN SubSeq(s, i, i) ELSE ""

LowerOf ==
    [c \in UpperLetters |->
        CASE c = "A" -> "a" [] c = "B" -> "b" [] c = "C" -> "c" [] c = "D" -> "d"
          [] c = "E" -> "e" [] c = "F" -> "f" [] c = "G" -> "g" [] c = "H" -> "h"
          [] c = "I" -> "i" [] c = "J" -> "j" [] c = "K" -> "k" [] c = "L" -> "l"
          [] c = "M" -> "m" [] c = "N" -> "n" [] c = "O" -> "o" [] c = "P" -> "p"
          [] c = "Q" -> "q" [] c = "R" -> "r" [] c = "S" -> "s" [] c = "T" -> "t"
          [] c = "U" -> "u" [] c = "V" -> "v" [] c = "W" -> "w" [] c = "X" -> "x"
          [] c = "Y" -> "y" [] OTHER -> "z"]

\* String.prototype.toLowerCase
RECURSIVE toLowerCase(_)
toLowerCase(s) ==
    IF Len(s) = 0 THEN ""
    ELSE IF Len(s) = 1 THEN (IF s \in UpperLetters THEN LowerOf[s] ELSE s)
    ELSE LET h == Len(s) \div 2
         IN  toLowerCase(SubSeq(s, 1, h)) \o toLowerCase(SubSeq(s, h + 1, Len(s)))

\* lit occurs in s starting at position i
LitAt(s, i, lit) ==
    /\ i >= 1
    /\ i + Len(lit) - 1 <= Len(s)
    /\ SubSeq(s, i, i + Len(lit) - 1) = lit

\* String.prototype.includes
includes(s, lit) == \E i \in 1..(Len(s) - Len(lit) + 1) : LitAt(s, i, lit)

\* the assertion \b at position p: between character p-1 and character p
WordBoundary(s, p) == (CharAt(s, p - 1) \in WordChars) # (CharAt(s, p) \in WordChars)

\* the n characters from position i are all digits (\d{n})
DigitsAt(s, i, n) ==
    /\ i + n - 1 <= Len(s)
    /\ \A j \in i..(i + n - 1) : CharAt(s, j) \in Digits

DigitVal(c) ==
    CASE c = "0" -> 0 [] c = "1" -> 1 [] c = "2" -> 2 [] c = "3" -> 3 [] c = "4" -> 4
      [] c = "5" -> 5 [] c = "6" -> 6 [] c = "7" -> 7 [] c = "8" -> 8 [] OTHER -> 9

\* unary plus / parseInt of a string of digits
RECURSIVE ToNumber(_)
ToNumber(s) ==
    IF Len(s) = 0 THEN 0
    ELSE 10 * ToNumber(SubSeq(s, 1, Len(s) - 1)) + DigitVal(CharAt(s, Len(s)))

\* length of the longest run of characters of class cls starting at position i
RECURSIVE RunLen(_, _, _)
RunLen(s, i, cls) == IF CharAt(s, i) \in cls THEN 1 + RunLen(s, i + 1, cls) ELSE 0

(***************************************************************************)
(* The JavaScript Date object                                              *)
(***************************************************************************)
MinutesPerDay == 24 * 60

IsLeap(y) == (y % 4 = 0 /\ y % 100 # 0) \/ y % 400 = 0

\* days from 1970-01-01 to the first day of year y
DaysBeforeYear(y) ==
    365 * (y - 1970) + ((y - 1) \div 4 - 492) - ((y - 1) \div 100 - 19) + ((y - 1) \div 400 - 4)

\* days from the first day of the year to the first day of month m (1..12)
DaysBeforeMonth(y, m) ==
    LET cum == <<0, 31, 59, 90, 120, 151, 181, 212, 243, 273, 304, 334>>
    IN  cum[m] + (IF m > 2 /\ IsLeap(y) THEN 1 ELSE 0)

\* day number of a civil date; month index mi is 0-based and may overflow,
\* as may the day: the Date constructor carries both over
DayNumber(y, mi, d) ==
    LET yy == y + (mi \div 12)
        mm == (mi % 12) + 1
    IN  DaysBeforeYear(yy) + DaysBeforeMonth(yy, mm) + (d - 1)

RECURSIVE YearOfDay(_, _)
YearOfDay(n, y) ==
    IF n < DaysBeforeYear(y) THEN YearOfDay(n, y - 1)
    ELSE IF n >= DaysBeforeYear(y + 1) THEN YearOfDay(n, y + 1)
    ELSE y

\* the civil date [y, m (0-based), d] of a day number
CivilOfDay(n) ==
    CHOOSE c \in {[y |-> y, m |-> k - 1, d |-> n - DaysBeforeYear(y) - DaysBeforeMonth(y, k) + 1] :
                    y \in {YearOfDay(n, 1970 + n \div 365)}, k \in 1..12} :
        /\ c.d >= 1
        /\ (c.m = 11 \/ c.d <= DaysBeforeMonth(c.y, c.m + 2) - DaysBeforeMonth(c.y, c.m + 1))

\* local day number and minute of the day of instant t
LocalDay(t) == (t + tz) \div MinutesPerDay
LocalMinute(t) == (t + tz) % MinutesPerDay

\* new Date(year, monthIndex, day): local midnight; years 0..99 mean 1900..1999
NewDate(y, mi, d) ==
    LET yy == IF y >= 0 /\ y <= 99 THEN 1900 + y ELSE y
    IN  DayNumber(yy, mi, d) * MinutesPerDay - tz

getFullYear(t) == CivilOfDay(LocalDay(t)).y
getMonth(t) == CivilOfDay(LocalDay(t)).m
getDate(t) == CivilOfDay(LocalDay(t)).d
\* 0 = Sunday; 1970-01-01 was a Thursday
getDay(t) == (LocalDay(t) + 4) % 7

\* d.setDate(d.getDate() + k)
AddDays(t, k) == t + k * MinutesPerDay

\* d.setHours(0, 0, 0, 0)
StartOfDay(t) == LocalDay(t) * MinutesPerDay - tz

\* d.setFullYear(y): same local month, day and time of day, day carried over
setFullYear(t, y) ==
    DayNumber(y, getMonth(t), getDate(t)) * MinutesPerDay + LocalMinute(t) - tz

\* the UTC calendar date of an instant: d.toISOString().slice(0, 10)
UTCDateKey(t) == CivilOfDay(t \div MinutesPerDay)

(***************************************************************************)
(* dateExtractor.js: the 5-layer date extraction engine                    *)
(***************************************************************************)
\* the alternation Object.keys(MONTHS).filter(m => m.length > 2).join('|'),
\* in the order of its alternatives
MonthNames ==
    <<"jan", "january", "feb", "february", "mar", "march", "apr", "april",
      "may", "jun", "june", "jul", "july", "aug", "august", "sep", "september",
      "oct", "october", "nov", "november", "dec", "december">>

\* MONTHS[str.toLowerCase().slice(0, 3)]
monthNum(str) ==
    CHOOSE r \in
        {CASE k = "jan" -> 0 [] k = "feb" -> 1 [] k = "mar" -> 2 [] k = "apr" -> 3
           [] k = "may" -> 4 [] k = "jun" -> 5 [] k = "jul" -> 6 [] k = "aug" -> 7
           [] k = "sep" -> 8 [] k = "oct" -> 9 [] k = "nov" -> 10 [] OTHER -> 11 :
            k \in {SubSeq(toLowerCase(str), 1, 3)}} : TRUE

\* the match a backtracking regular expression engine reports: among all the
\* ways the pattern matches, the leftmost start and then the first in the
\* engine's order of trying alternatives (greedy first); key encodes that order
FirstMatch(cands) == CHOOSE c \in cands : \A o \in cands : c.key <= o.key

ThirtyDays == 30 * MinutesPerDay

\* inferYear choosing, between last, this and next year, the date nearest to
\* the reference date
inferYear_nearest(month, day, ref) ==
    CHOOSE r \in {NewDate(getFullYear(ref) + k, month, day) : k \in {-1, 0, 1}} :
        \A k \in {-1, 0, 1} :
            LET o == NewDate(getFullYear(ref) + k, month, day)
            IN  (IF r < ref THEN ref - r ELSE r - ref) <= (IF o < ref THEN ref - o ELSE o - ref)

\* inferYear with the comparison made inclusive: a date exactly 30 days back
\* is pushed to the next year too
inferYear_inclusive(month, day, ref) ==
    CHOOSE r \in {IF d < ref /\ (ref - d) >= ThirtyDays
                  THEN setFullYear(d, getFullYear(d) + 1)
                  ELSE d : d \in {NewDate(getFullYear(ref), month, day)}} : TRUE

inferYear(month, day, ref) ==
    CHOOSE r \in {IF d < ref /\ (ref - d) > ThirtyDays
                  THEN setFullYear(d, getFullYear(d) + 1)
                  ELSE d : d \in {NewDate(getFullYear(ref), month, day)}} : TRUE

DateResult(start, end, type) == <<[start |-> start, end |-> end, type |-> type]>>

\* /\b(\d{4})-(\d{1,2})-(\d{1,2})\b/
IsoMatches(text) ==
    {[i |-> i, a |-> a, b |-> b, key |-> i * 4 + (2 - a) * 2 + (2 - b)] :
        i \in 1..Len(text), a \in 1..2, b \in 1..2}
IsoCands(text) ==
    {c \in IsoMatches(text) :
        /\ WordBoundary(text, c.i)
        /\ DigitsAt(text, c.i, 4)
        /\ CharAt(text, c.i + 4) = "-"
        /\ DigitsAt(text, c.i + 5, c.a)
        /\ CharAt(text, c.i + 5 + c.a) = "-"
        /\ DigitsAt(text, c.i + 6 + c.a, c.b)
        /\ WordBoundary(text, c.i + 6 + c.a + c.b)}

\* /\b(\d{1,2})[\/\-](\d{1,2})[\/\-](\d{4})\b/
DmyCands(text) ==
    {c \in IsoMatches(text) :
        /\ WordBoundary(text, c.i)
        /\ DigitsAt(text, c.i, c.a)
        /\ CharAt(text, c.i + c.a) \in {"/", "-"}
        /\ DigitsAt(text, c.i + c.a + 1, c.b)
        /\ CharAt(text, c.i + c.a + 1 + c.b) \in {"/", "-"}
        /\ DigitsAt(text, c.i + c.a + c.b + 2, 4)
        /\ WordBoundary(text, c.i + c.a + c.b + 6)}

\* Layer 1: ISO and numeric dates
extractISO(text, ref) ==
    IF IsoCands(text) # {}
    THEN CHOOSE r \in
             {LET y == ToNumber(SubSeq(text, c.i, c.i + 3))
                  m == ToNumber(SubSeq(text, c.i + 5, c.i + 4 + c.a))
                  d == ToNumber(SubSeq(text, c.i + 6 + c.a, c.i + 5 + c.a + c.b))
              IN  DateResult(NewDate(y, m - 1, d), <<>>, "iso") :
                 c \in {FirstMatch(IsoCands(text))}} : TRUE
    ELSE IF DmyCands(text) # {}
    THEN CHOOSE r \in
             {LET d == ToNumber(SubSeq(text, c.i, c.i + c.a - 1))
                  m == ToNumber(SubSeq(text, c.i + c.a + 1, c.i + c.a + c.b))
                  y == ToNumber(SubSeq(text, c.i + c.a + c.b + 2, c.i + c.a + c.b + 5))
              IN  DateResult(NewDate(y, m - 1, d), <<>>, "numeric") :
                 c \in {FirstMatch(DmyCands(text))}} : TRUE
    ELSE <<>>

\* the alternatives of (MN) that match the lower-cased text at position i
MonthAlts(lt, i) == {k \in 1..Len(MonthNames) : LitAt(lt, i, MonthNames[k])}

OrdinalSuffixes == {"st", "nd", "rd", "th"}

\* the ways  \s+(\d{1,2})(?:st|nd|rd|th)?(?:[,\s]+(\d{4}))?\b  matches from
\* position p (the tail shared by the named and the deadline patterns);
\* dpos/dl locate the day, ypos the year (0: the year group did not take part)
MonthDayTail(text, lt, p) ==
    LET ws == RunLen(text, p, SpaceChars)
        dp == p + ws
        all == {[dl |-> dl, suf |-> suf, yr |-> yr] : dl \in 1..2, suf \in 0..1, yr \in 0..1}
        sep(c) == RunLen(text, dp + c.dl + 2 * c.suf, SpaceChars \cup {","})
        yp(c) == dp + c.dl + 2 * c.suf + sep(c)
        end(c) == IF c.yr = 1 THEN yp(c) + 4 ELSE dp + c.dl + 2 * c.suf
        ok(c) ==
            /\ ws >= 1
            /\ DigitsAt(text, dp, c.dl)
            /\ c.suf = 1 => \E x \in OrdinalSuffixes : LitAt(lt, dp + c.dl, x)
            /\ c.yr = 1 => sep(c) >= 1 /\ DigitsAt(text, yp(c), 4)
            /\ WordBoundary(text, end(c))
    IN  {[dpos |-> dp, dl |-> c.dl, ypos |-> IF c.yr = 1 THEN yp(c) ELSE 0,
          key |-> (2 - c.dl) * 4 + (1 - c.suf) * 2 + (1 - c.yr)] : c \in {x \in all : ok(x)}}

\* new RegExp(`\\b(${monthNames})\\s+(\\d{1,2})(?:st|nd|rd|th)?(?:[,\\s]+(\\d{4}))?\\b`, 'i')
Named1Cands(text) ==
    UNION {IF WordBoundary(text, i)
           THEN UNION {{[mi |-> k, dpos |-> t.dpos, dl |-> t.dl, ypos |-> t.ypos,
                         key |-> (i * 32 + k) * 8 + t.key] :
                           t \in MonthDayTail(text, lt, i + Len(MonthNames[k]))} :
                       k \in MonthAlts(lt, i)}
           ELSE {} : lt \in {toLowerCase(text)}, i \in 1..Len(text)}

\* the ways  (\d{1,2})(?:st|nd|rd|th)?\s+(MN)(?:\s+(\d{4}))?\b  matches at i
DayMonthAt(text, lt, i) ==
    LET all == {[dl |-> dl, suf |-> suf, mi |-> k, yr |-> yr] :
                    dl \in 1..2, suf \in 0..1, k \in 1..Len(MonthNames), yr \in 0..1}
        ws(c) == RunLen(text, i + c.dl + 2 * c.suf, SpaceChars)
        mp(c) == i + c.dl + 2 * c.suf + ws(c)
        me(c) == mp(c) + Len(MonthNames[c.mi])
        ws2(c) == RunLen(text, me(c), SpaceChars)
        ok(c) ==
            /\ DigitsAt(text, i, c.dl)
            /\ c.suf = 1 => \E x \in OrdinalSuffixes : LitAt(lt, i + c.dl, x)
            /\ ws(c) >= 1
            /\ LitAt(lt, mp(c), MonthNames[c.mi])
            /\ c.yr = 1 => ws2(c) >= 1 /\ DigitsAt(text, me(c) + ws2(c), 4)
            /\ WordBoundary(text, IF c.yr = 1 THEN me(c) + ws2(c) + 4 ELSE me(c))
    IN  {[mi |-> c.mi, dpos |-> i, dl |-> c.dl,
          ypos |-> IF c.yr = 1 THEN me(c) + ws2(c) ELSE 0,
          key |-> (((i * 2 + (2 - c.dl)) * 2 + (1 - c.suf)) * 32 + c.mi) * 2 + (1 - c.yr)] :
            c \in {x \in all : ok(x)}}

\* new RegExp(`\\b(\\d{1,2})(?:st|nd|rd|th)?\\s+(${monthNames})(?:\\s+(\\d{4}))?\\b`, 'i')
Named2Cands(text) ==
    UNION {IF WordBoundary(text, i) /\ CharAt(text, i) \in Digits
           THEN DayMonthAt(text, lt, i)
           ELSE {} : lt \in {toLowerCase(text)}, i \in 1..Len(text)}

\* MatchedDate with the captured year ignored
MatchedDate_inferred(text, c, ref) ==
    inferYear(monthNum(MonthNames[c.mi]), ToNumber(SubSeq(text, c.dpos, c.dpos + c.dl - 1)), ref)

\* the date of a matched month / day / optional year:
\*   yr = m[3] ? +m[3] : null;  d = yr ? new Date(yr, mo, day) : inferYear(mo, day, ref)
MatchedDate(text, c, ref) ==
    CHOOSE r \in {IF yr # 0 THEN NewDate(yr, mo, day) ELSE inferYear(mo, day, ref) :
                     mo \in {monthNum(MonthNames[c.mi])},
                     day \in {ToNumber(SubSeq(text, c.dpos, c.dpos + c.dl - 1))},
                     yr \in {IF c.ypos = 0 THEN 0 ELSE ToNumber(SubSeq(text, c.ypos, c.ypos + 3))}} :
        TRUE

\* Layer 2: named dates
extractNamed(text, ref) ==
    IF Named1Cands(text) # {}
    THEN DateResult(MatchedDate(text, FirstMatch(Named1Cands(text)), ref), <<>>, "named")
    ELSE IF Named2Cands(text) # {}
    THEN DateResult(MatchedDate(text, FirstMatch(Named2Cands(text)), ref), <<>>, "named")
    ELSE <<>>

\* the alternatives of the range separator; the texts are ASCII, so the
\* en dash alternative of the source patterns can never match and is left out
RangeSeps == <<"to", "-", "through">>
RangeSepsShort == <<"to", "-">>

\* the ways  \s*(?:sep1|sep2|...)\s*  matches from position q: the alternative
\* taken and the position after the trailing white space
SepAfter(text, lt, q, seps) ==
    LET sp == q + RunLen(text, q, SpaceChars)
    IN  {[si |-> k,
          pos |-> sp + Len(seps[k]) + RunLen(text, sp + Len(seps[k]), SpaceChars)] :
            k \in {j \in 1..Len(seps) : LitAt(lt, sp, seps[j])}}

\* the ways  (MN)\s+(\d{1,2})  matches at position i
MonthDayAt(text, lt, i) ==
    LET ws(k) == RunLen(text, i + Len(MonthNames[k]), SpaceChars)
        dp(k) == i + Len(MonthNames[k]) + ws(k)
    IN  UNION {{[mi |-> k, dpos |-> dp(k), dl |-> dl] :
                   dl \in {n \in 1..2 : ws(k) >= 1 /\ DigitsAt(text, dp(k), n)}} :
               k \in MonthAlts(lt, i)}

\* `\\b(MN)\\s+(\\d{1,2})\\s*(?:to|-|through)\\s*(MN)\\s+(\\d{1,2})\\b`, 'i'
Range1Cands(text) ==
    UNION {IF WordBoundary(text, i)
           THEN UNION {UNION {{[a |-> a, b |-> b,
                                key |-> ((((i * 32 + a.mi) * 2 + (2 - a.dl)) * 4 + sp.si) * 32
                                         + b.mi) * 2 + (2 - b.dl)] :
                                  b \in {x \in MonthDayAt(text, lt, sp.pos) :
                                            WordBoundary(text, x.dpos + x.dl)}} :
                              sp \in SepAfter(text, lt, a.dpos + a.dl, RangeSeps)} :
                       a \in MonthDayAt(text, lt, i)}
           ELSE {} : lt \in {toLowerCase(text)}, i \in 1..Len(text)}

\* `\\b(MN)\\s+(\\d{1,2})\\s*(?:to|-|through)\\s*(\\d{1,2})\\b`, 'i'
Range2Cands(text) ==
    UNION {IF WordBoundary(text, i)
           THEN UNION {UNION {{[a |-> a, bpos |-> sp.pos, bl |-> bl,
                                key |-> (((i * 32 + a.mi) * 2 + (2 - a.dl)) * 4 + sp.si) * 2
                                        + (2 - bl)] :
                                  bl \in {n \in 1..2 : /\ DigitsAt(text, sp.pos, n)
                                                       /\ WordBoundary(text, sp.pos + n)}} :
                              sp \in SepAfter(text, lt, a.dpos + a.dl, RangeSeps)} :
                       a \in MonthDayAt(text, lt, i)}
           ELSE {} : lt \in {toLowerCase(text)}, i \in 1..Len(text)}

\* `\\b(\\d{1,2})\\s*(?:to|-)\\s*(\\d{1,2})\\s+(MN)\\b`, 'i'
Range3Cands(text) ==
    LET mpos(sp, bl) == sp.pos + bl + RunLen(text, sp.pos + bl, SpaceChars)
    IN  UNION {IF WordBoundary(text, i)
               THEN UNION {UNION {UNION {{[apos |-> i, al |-> al, bpos |-> sp.pos, bl |-> bl,
                                           mi |-> k,
                                           key |-> (((i * 2 + (2 - al)) * 4 + sp.si) * 2
                                                    + (2 - bl)) * 32 + k] :
                                             k \in {m \in MonthAlts(lt, mpos(sp, bl)) :
                                                 /\ RunLen(text, sp.pos + bl, SpaceChars) >= 1
                                                 /\ WordBoundary(text, mpos(sp, bl)
                                                                        + Len(MonthNames[m]))}} :
                                         bl \in {n \in 1..2 : DigitsAt(text, sp.pos, n)}} :
                                  sp \in SepAfter(text, lt, i + al, RangeSepsShort)} :
                           al \in {n \in 1..2 : DigitsAt(text, i, n)}}
               ELSE {} : lt \in {toLowerCase(text)}, i \in 1..Len(text)}

DayAt(text, pos, len) == ToNumber(SubSeq(text, pos, pos + len - 1))

\* Layer 3: date ranges
extractRange(text, ref) ==
    IF Range1Cands(text) # {}
    THEN CHOOSE r \in
             {DateResult(
                  inferYear(monthNum(MonthNames[c.a.mi]), DayAt(text, c.a.dpos, c.a.dl), ref),
                  <<inferYear(monthNum(MonthNames[c.b.mi]), DayAt(text, c.b.dpos, c.b.dl), ref)>>,
                  "range") : c \in {FirstMatch(Range1Cands(text))}} : TRUE
    ELSE IF Range2Cands(text) # {}
    THEN CHOOSE r \in
             {LET mo == monthNum(MonthNames[c.a.mi])
              IN  DateResult(inferYear(mo, DayAt(text, c.a.dpos, c.a.dl), ref),
                             <<inferYear(mo, DayAt(text, c.bpos, c.bl), ref)>>, "range") :
                 c \in {FirstMatch(Range2Cands(text))}} : TRUE
    ELSE IF Range3Cands(text) # {}
    THEN CHOOSE r \in
             {LET mo == monthNum(MonthNames[c.mi])
              IN  DateResult(inferYear(mo, DayAt(text, c.apos, c.al), ref),
                             <<inferYear(mo, DayAt(text, c.bpos, c.bl), ref)>>, "range") :
                 c \in {FirstMatch(Range3Cands(text))}} : TRUE
    ELSE <<>>

DAYS == <<"sunday", "monday", "tuesday", "wednesday", "thursday", "friday", "saturday">>

\* /\bword\b/.test(s) for a literal that starts and ends with a word character
TestWord(s, lit) ==
    \E i \in 1..(Len(s) - Len(lit) + 1) :
        LitAt(s, i, lit) /\ WordBoundary(s, i) /\ WordBoundary(s, i + Len(lit))

\* /\bnext\s+(\d+)\s+(day|week)s?\b/ : the number and the unit of each match
NextNCands(lower) ==
    LET units == <<"day", "week">>
        np(i) == i + 4 + RunLen(lower, i + 4, SpaceChars)
        nl(i) == RunLen(lower, np(i), Digits)
        up(i) == np(i) + nl(i) + RunLen(lower, np(i) + nl(i), SpaceChars)
        ok(i, u, pl) ==
            /\ WordBoundary(lower, i)
            /\ LitAt(lower, i, "next")
            /\ np(i) > i + 4
            /\ nl(i) >= 1
            /\ up(i) > np(i) + nl(i)
            /\ LitAt(lower, up(i), units[u])
            /\ pl = 1 => CharAt(lower, up(i) + Len(units[u])) = "s"
            /\ WordBoundary(lower, up(i) + Len(units[u]) + pl)
    IN  {[n |-> ToNumber(SubSeq(lower, np(c[1]), np(c[1]) + nl(c[1]) - 1)),
          unit |-> units[c[2]],
          key |-> (c[1] * 4 + c[2]) * 2 + (1 - c[3])] :
            c \in {x \in (1..Len(lower)) \X (1..2) \X (0..1) : ok(x[1], x[2], x[3])}}

\* new RegExp(`\\b(?:this|next|coming)\\s+${day}\\b`, 'i').test(text)
TestDay(text, day) ==
    \E lt \in {toLowerCase(text)} : \E i \in 1..Len(text) : \E w \in {"this", "next", "coming"} :
        /\ WordBoundary(text, i)
        /\ LitAt(lt, i, w)
        /\ \E ws \in {RunLen(text, i + Len(w), SpaceChars)} :
              /\ ws >= 1
              /\ LitAt(lt, i + Len(w) + ws, day)
              /\ WordBoundary(text, i + Len(w) + ws + Len(day))

\* Layer 4: relative dates
extractRelative(text, ref) ==
    LET lower == toLowerCase(text)
        days  == {i \in 0..6 : TestDay(text, DAYS[i + 1])}
    IN  IF TestWord(lower, "tomorrow") THEN DateResult(AddDays(ref, 1), <<>>, "relative")
        ELSE IF TestWord(lower, "today") THEN DateResult(ref, <<>>, "relative")
        ELSE IF NextNCands(lower) # {}
        THEN CHOOSE r \in
                 {DateResult(ref, <<AddDays(ref, c.n * (IF c.unit = "week" THEN 7 ELSE 1))>>,
                             "relative") : c \in {FirstMatch(NextNCands(lower))}} : TRUE
        ELSE IF TestWord(lower, "next week")
        THEN LET start == AddDays(ref, 7 - getDay(ref) + 1)
             IN  DateResult(start, <<AddDays(start, 6)>>, "relative")
        ELSE IF days # {}
        THEN LET i == CHOOSE d \in days : \A o \in days : d <= o
                 diff == (i - getDay(ref) + 7) % 7
             IN  DateResult(AddDays(ref, IF diff = 0 THEN 7 ELSE diff), <<>>, "relative")
        ELSE IF TestWord(lower, "this weekend")
        THEN LET sat == AddDays(ref, (6 - getDay(ref) + 7) % 7)
             IN  DateResult(sat, <<AddDays(sat, 1)>>, "relative")
        ELSE <<>>

\* the alternatives of (?:ends?|last date|deadline|valid (?:till|until)|expires?|before)
\* in the order a backtracking engine tries them
DeadlineAnchors ==
    <<"ends", "end", "last date", "deadline", "valid till", "valid until",
      "expires", "expire", "before">>

\* deadlineRe: anchor \s+ (?:on\s+)? (MN) followed by the month-day tail
DeadlineCands(text) ==
    UNION {LET p1(i, a) == i + Len(DeadlineAnchors[a])
                            + RunLen(text, i + Len(DeadlineAnchors[a]), SpaceChars)
               p2(i, a, on) == IF on = 1 THEN p1(i, a) + 2 + RunLen(text, p1(i, a) + 2, SpaceChars)
                               ELSE p1(i, a)
               ok(i, a, on) ==
                   /\ WordBoundary(text, i)
                   /\ LitAt(lt, i, DeadlineAnchors[a])
                   /\ p1(i, a) > i + Len(DeadlineAnchors[a])
                   /\ on = 1 => LitAt(lt, p1(i, a), "on") /\ p2(i, a, on) > p1(i, a) + 2
           IN  UNION {UNION {{[mi |-> k, dpos |-> t.dpos, dl |-> t.dl, ypos |-> t.ypos,
                               key |-> (((x[1] * 16 + x[2]) * 2 + (1 - x[3])) * 32 + k) * 8
                                       + t.key] :
                                 t \in MonthDayTail(text, lt, p2(x[1], x[2], x[3])
                                                               + Len(MonthNames[k]))} :
                             k \in MonthAlts(lt, p2(x[1], x[2], x[3]))} :
                      x \in {y \in (1..Len(text)) \X (1..Len(DeadlineAnchors)) \X (0..1) :
                                ok(y[1], y[2], y[3])}} : lt \in {toLowerCase(text)}}

\* Layer 5: deadline detection
extractDeadline(text, ref) ==
    IF DeadlineCands(text) # {}
    THEN DateResult(ref, <<MatchedDate(text, FirstMatch(DeadlineCands(text)), ref)>>, "deadline")
    ELSE <<>>

\* a || b for values that are null (<<>>) or an object
OrElse(a, b) == IF a # <<>> THEN a ELSE b

\* extractDate with the relative layer tried before the others
extractDate_relativeFirst(text, pubDate) ==
    IF text = "" THEN <<>>
    ELSE LET ref == IF pubDate # <<>> THEN pubDate[1] ELSE now
         IN  OrElse(extractRelative(text, ref),
             OrElse(extractISO(text, ref),
             OrElse(extractNamed(text, ref),
             OrElse(extractRange(text, ref),
                    extractDeadline(text, ref)))))

\* Main entry point.  pubDate is null (<<>>) or a valid Date (<<instant>>):
\* normalizeUpAheadItem maps an invalid Date to null before any call
extractDate(text, pubDate) ==
    IF text = "" THEN <<>>
    ELSE LET ref == IF pubDate # <<>> THEN pubDate[1] ELSE now
         IN  OrElse(extractISO(text, ref),
             OrElse(extractNamed(text, ref),
             OrElse(extractRange(text, ref),
             OrElse(extractRelative(text, ref),
                    extractDeadline(text, ref)))))

\* the while loop of expandDateKeys: d <= end && keys.length < maxDays, with
\* room = maxDays - keys.length
RECURSIVE expandFrom(_, _, _)
expandFrom(d, end, room) ==
    IF d <= end /\ room > 0
    THEN <<UTCDateKey(d)>> \o expandFrom(AddDays(d, 1), end, room - 1)
    ELSE <<>>

\* Expand a date result (<<>> or <<record>>) into the keys of its days
expandDateKeys(dateResult, maxDays) ==
    IF dateResult = <<>> THEN <<>>
    ELSE CHOOSE r \in
           {expandFrom(start,
                       StartOfDay(IF dateResult[1].end # <<>> THEN dateResult[1].end[1] ELSE start),
                       maxDays) :
              start \in {StartOfDay(dateResult[1].start)}} : TRUE

(***************************************************************************)
(* upAheadService.js: keyword tables and keyword matching                  *)
(***************************************************************************)
\* new RegExp(`\\b${escaped}\\b`, 'i').test(text); the compiled pattern is
\* kept in _wbCache, which does not change what test returns
matchesWord(text, word) ==
    LET lt == toLowerCase(text)
        lw == toLowerCase(word)
    IN  \E i \in 1..(Len(text) - Len(word) + 1) :
            /\ LitAt(lt, i, lw)
            /\ WordBoundary(text, i)
            /\ WordBoundary(text, i + Len(word))

\* matchesKeyword with every keyword matched by containment
matchesKeyword_substring(text, keyword) == includes(text, keyword)

matchesKeyword(text, keyword) ==
    IF includes(keyword, " ") THEN includes(text, keyword) ELSE matchesWord(text, keyword)

\* Layer 1: Object.values(NEGATIVE_KEYWORDS).flat(), in table order
ALL_NEGATIVE_KEYWORDS ==
    <<"review", "reviewed", "reviews", "opinion", "editorial", "column", "op-ed",
      "analysis", "deep dive", "explainer", "explained", "interview", "memoir",
      "podcast", "recap", "retrospective", "lookback", "throwback", "gossip", "rumour",
      "rumor", "spotted", "dating", "divorce", "controversy", "trolled", "slammed",
      "reacts", "reaction", "claps back", "feud", "leaked", "wardrobe malfunction",
      "breakup", "arrested", "murder", "stabbed", "robbery", "scam", "fraud", "accused",
      "chargesheet", "sentenced", "bail", "fir filed", "kidnap", "suicide", "death toll",
      "fatal", "quarterly results", "earnings call", "dividend", "stock split",
      "ipo allotment", "listing gains", "shareholding pattern", "promoter stake",
      "mutual fund nav", "portfolio rebalancing", "alleges", "slams", "hits out",
      "war of words", "defamation", "no confidence", "horse trading", "exit poll",
      "poll prediction", "meme", "was held", "concluded", "wrapped up", "came to an end",
      "successfully completed", "inaugurated by", "flagged off", "took place",
      "was celebrated", "passes away", "passed away", "demise", "rip", "condolences",
      "last rites", "funeral", "pays tribute", "mourns", "obituary", "top 10", "top 5",
      "best of", "worst of", "reasons why", "things you", "ranked",
      "all you need to know", "everything we know", "box office collection",
      "day 1 collection", "total collection", "worldwide gross", "opening weekend",
      "first week collection", "crosses crore", "nett collection", "shocking",
      "you won't believe", "jaw dropping", "gone viral", "breaks the internet",
      "exclusive">>

\* Layer 2: forward-looking signal words
FORWARD_LOOKING_SIGNALS ==
    <<"upcoming", "scheduled", "starting", "launches", "opens", "begins", "commences",
      "from today", "this weekend", "next week", "releasing", "premieres", "debuts",
      "kicks off", "set to", "slated for", "expected on", "effective from", "valid till",
      "last date", "deadline", "registrations open", "bookings open", "doors open",
      "book now", "tickets available", "grab your", "register", "rsvp", "sign up",
      "enroll", "apply before", "limited seats", "early bird", "pre-order",
      "advance booking", "buy tickets", "entry free", "venue", "stadium", "auditorium",
      "convention centre", "exhibition hall", "multiplex", "arena", "grounds",
      "schedule", "timetable", "lineup", "itinerary", "match day", "race day",
      "show timings", "showtimes", "time slot", "batch">>

\* Layer 3: category-specific positive keywords
CATEGORY_POSITIVE_KEYWORDS ==
    [movies |->
        <<"release date", "releasing", "in theatres", "in theaters", "first day",
          "advance booking", "fdfs", "premiere", "preview", "sneak peek",
          "special screening", "ott release", "streaming from", "now streaming",
          "available on", "direct to ott", "digital premiere", "tickets", "showtimes",
          "book now", "bookmyshow", "ticketnew", "paytm movies", "trailer launch",
          "teaser release", "motion poster">>,
     events |->
        <<"concert", "live music", "standup", "comedy show", "theatre", "theater",
          "drama", "stage play", "dance recital", "sabha", "kutcheri", "kutchery",
          "exhibition", "expo", "book fair", "trade fair", "flea market", "art gallery",
          "trade show", "workshop", "masterclass", "bootcamp", "seminar", "webinar",
          "hackathon", "meetup", "food festival", "pop-up", "tasting", "brunch",
          "food walk", "heritage walk", "night market", "entry fee", "passes available",
          "gate open", "limited slots", "registration">>,
     sports |->
        <<" vs ", " v/s ", "match", "fixture", "squad announced", "playing xi", "toss",
          "innings", "schedule", "points table", "qualifier", "semi final", "final",
          "playoffs", "stadium", "live on", "broadcast", "streaming", "start time",
          "kick off", "first ball">>,
     festivals |->
        <<"holiday", "bank holiday", "gazetted", "declared holiday",
          "government holiday", "pongal", "diwali", "deepavali", "navratri", "dussehra",
          "eid", "ramadan", "christmas", "onam", "vishu", "ugadi", "holi", "ganesh",
          "jayanti", "puja", "pooja", "thai pusam", "observed on", "falls on",
          "celebrated on", "auspicious", "muhurtham", "tithi">>,
     shopping |->
        <<"sale", "mega sale", "flash sale", "clearance", "end of season",
          "flat discount", "upto off", "cashback", "coupon", "promo code",
          "shopping festival", "exhibition sale", "trade fair", "grand opening",
          "limited period", "ends today", "last day", "offer valid", "while stocks last",
          "hurry">>,
     alerts |->
        <<"power cut", "power shutdown", "load shedding", "tangedco", "tneb",
          "scheduled maintenance", "water cut", "water supply", "disruption",
          "traffic advisory", "road closure", "diversion", "metro shutdown",
          "bus route change", "train cancelled", "flight delayed", "boil water advisory",
          "mosquito fogging", "tree trimming", "construction zone">>,
     weather_alerts |->
        <<"warning", "alert", "advisory", "watch", "red alert", "orange alert",
          "yellow alert", "heavy rain", "very heavy rain", "cyclone", "thunderstorm",
          "heat wave", "cold wave", "fog", "flooding", "high tide", "storm surge", "imd",
          "met department", "weather bulletin">>,
     civic |->
        <<"vip movement", "vip visit", "road block", "security arrangement",
          "route change", "bandh", "hartal", "strike", "protest march", "rasta roko",
          "rail roko", "corporation notice", "tender", "public hearing", "ward meeting",
          "grievance day">>]

\* list.some(w => matchesKeyword(fullText, w.toLowerCase()))
SomeKeyword(fullText, list) ==
    \E k \in 1..Len(list) : matchesKeyword(fullText, toLowerCase(list[k]))

(***************************************************************************)
(* upAheadService.js: normalisation of a fetched RSS item                  *)
(***************************************************************************)
\* entities[match] || match
EntityOf(m) ==
    CASE m = "&nbsp;" -> " "
      [] m = "&amp;" -> "&"
      [] m = "&quot;" -> "\""
      [] m = "&#39;" -> "'"
      [] m = "&lt;" -> "<"
      [] m = "&gt;" -> ">"
      [] OTHER -> m

EntityChars == Digits \cup LowerLetters \cup UpperLetters \cup {"#"}

\* text.replace(/&[a-z0-9#]+;/gi, (match) => entities[match] || match):
\* the leftmost match is replaced, then the rest of the text is treated
RECURSIVE DecodeEntities(_)
DecodeEntities(s) ==
    LET n(i) == RunLen(s, i + 1, EntityChars)
        ms == {i \in 1..Len(s) : CharAt(s, i) = "&" /\ n(i) >= 1 /\ CharAt(s, i + 1 + n(i)) = ";"}
        i == CHOOSE x \in ms : \A y \in ms : x <= y
    IN  IF ms = {} THEN s
        ELSE SubSeq(s, 1, i - 1) \o EntityOf(SubSeq(s, i, i + 1 + n(i)))
                \o DecodeEntities(SubSeq(s, i + 2 + n(i), Len(s)))

\* s.indexOf(lit, from), 1-based; 0 when lit does not occur
IndexOf(s, lit, from) ==
    LET js == {j \in from..(Len(s) - Len(lit) + 1) : LitAt(s, j, lit)}
    IN  IF js = {} THEN 0 ELSE CHOOSE j \in js : \A k \in js : j <= k

\* text.replace(/<tag[^>]*>([\S\s]*?)<\/tag>/gmi, "")
RECURSIVE RemoveBlocks(_, _)
RemoveBlocks(s, tag) ==
    LET lt == toLowerCase(s)
        gt(i) == IF LitAt(lt, i, "<" \o tag) THEN IndexOf(s, ">", i + Len(tag) + 1) ELSE 0
        close(i) == IF gt(i) > 0 THEN IndexOf(lt, "</" \o tag \o ">", gt(i) + 1) ELSE 0
        ms == {i \in 1..Len(s) : close(i) > 0}
        i == CHOOSE x \in ms : \A y \in ms : x <= y
    IN  IF ms = {} THEN s
        ELSE SubSeq(s, 1, i - 1) \o RemoveBlocks(SubSeq(s, close(i) + Len(tag) + 3, Len(s)), tag)

\* text.replace(/<\/?[^>]+(>|$)/g, ""): a "<" followed by at least one
\* character other than ">" is removed up to the next ">" or the end
RECURSIVE RemoveTags(_)
RemoveTags(s) ==
    LET ms == {i \in 1..(Len(s) - 1) : CharAt(s, i) = "<" /\ CharAt(s, i + 1) # ">"}
        i == CHOOSE x \in ms : \A y \in ms : x <= y
        gt == IndexOf(s, ">", i + 1)
    IN  IF ms = {} THEN s
        ELSE IF gt = 0 THEN SubSeq(s, 1, i - 1)
        ELSE SubSeq(s, 1, i - 1) \o RemoveTags(SubSeq(s, gt + 1, Len(s)))

RECURSIVE trimStart(_)
trimStart(s) == IF s # "" /\ CharAt(s, 1) \in SpaceChars THEN trimStart(Tail(s)) ELSE s

RECURSIVE trimEnd(_)
trimEnd(s) ==
    IF s # "" /\ CharAt(s, Len(s)) \in SpaceChars THEN trimEnd(SubSeq(s, 1, Len(s) - 1)) ELSE s

trim(s) == trimEnd(trimStart(s))

stripHtml(html) ==
    IF html = "" THEN ""
    ELSE trim(RemoveTags(RemoveBlocks(RemoveBlocks(DecodeEntities(html), "script"), "style")))

\* detectCategory with the events group tested before the movies group
detectCategory_eventsFirst(text) ==
  CHOOSE r \in
   {LET has(w) == includes(t, w)
    IN  IF has("power cut") \/ has("power shutdown") \/ has("tangedco") \/ has("tneb") THEN "alerts"
        ELSE IF has("traffic advisory") \/ has("road closure") \/ has("water supply") THEN "alerts"
        ELSE IF has("cyclone") \/ has("heavy rain") \/ has("weather warning") \/ has("heat wave") \/ has("imd") THEN "weather_alerts"
        ELSE IF has("concert") \/ has("exhibition") \/ has("show") \/ has("workshop") \/ has("theatre") \/ has("opera") \/ has("sabha") \/ has("comedy") THEN "events"
        ELSE IF has("movie") \/ has("release") \/ has("trailer") \/ has("film") \/ has("cinema") \/ has("ott") \/ has("booking") THEN "movies"
        ELSE IF has("cricket") \/ has("ipl") \/ has("match") \/ has("football") \/ has("kabaddi") \/ has("tournament") THEN "sports"
        ELSE IF has("festival") \/ has("holiday") \/ has("jayanti") \/ has("puja") \/ has("pongal") \/ has("diwali") \/ has("ramadan") \/ has("eid") THEN "festivals"
        ELSE IF has("sale") \/ has("offer") \/ has("discount") \/ has("shopping") \/ has("deal") \/ has("expo") THEN "shopping"
        ELSE IF has("minister") \/ has("vip visit") \/ has("rally") \/ has("protest") \/ has("bandh") \/ has("corporation") THEN "civic"
        ELSE IF has("alert") \/ has("warning") \/ has("shut") THEN "alerts"
        ELSE "general" :
      t \in {toLowerCase(text)}} : TRUE

\* Regex-based Category Detection
detectCategory(text) ==
  CHOOSE r \in
   {LET has(w) == includes(t, w)
    IN  IF has("power cut") \/ has("power shutdown") \/ has("tangedco") \/ has("tneb") THEN "alerts"
        ELSE IF has("traffic advisory") \/ has("road closure") \/ has("water supply") THEN "alerts"
        ELSE IF has("cyclone") \/ has("heavy rain") \/ has("weather warning") \/ has("heat wave") \/ has("imd") THEN "weather_alerts"
        ELSE IF has("movie") \/ has("release") \/ has("trailer") \/ has("film") \/ has("cinema") \/ has("ott") \/ has("booking") THEN "movies"
        ELSE IF has("cricket") \/ has("ipl") \/ has("match") \/ has("football") \/ has("kabaddi") \/ has("tournament") THEN "sports"
        ELSE IF has("festival") \/ has("holiday") \/ has("jayanti") \/ has("puja") \/ has("pongal") \/ has("diwali") \/ has("ramadan") \/ has("eid") THEN "festivals"
        ELSE IF has("sale") \/ has("offer") \/ has("discount") \/ has("shopping") \/ has("deal") \/ has("expo") THEN "shopping"
        ELSE IF has("minister") \/ has("vip visit") \/ has("rally") \/ has("protest") \/ has("bandh") \/ has("corporation") THEN "civic"
        ELSE IF has("concert") \/ has("exhibition") \/ has("show") \/ has("workshop") \/ has("theatre") \/ has("opera") \/ has("sabha") \/ has("comedy") THEN "events"
        ELSE IF has("alert") \/ has("warning") \/ has("shut") THEN "alerts"
        ELSE "general" :
      t \in {toLowerCase(text)}} : TRUE

\* the alternation `months` of extractFutureDate, in the order of its alternatives
LegacyMonths ==
    <<"jan", "feb", "mar", "apr", "may", "jun", "jul", "aug", "sep", "oct", "nov", "dec",
      "january", "february", "march", "april", "may", "june", "july", "august",
      "september", "october", "november", "december">>

\* the ways  (?:,?\s+(\d{4}))?\b  matches from position e: ypos locates the
\* year (0: the year group did not take part)
LegacyYearTail(text, e) ==
    LET c == IF CharAt(text, e) = "," THEN 1 ELSE 0
        ws == RunLen(text, e + c, SpaceChars)
        yp == e + c + ws
    IN  (IF ws >= 1 /\ DigitsAt(text, yp, 4) /\ WordBoundary(text, yp + 4)
         THEN {[ypos |-> yp, key |-> 0]} ELSE {})
        \cup (IF WordBoundary(text, e) THEN {[ypos |-> 0, key |-> 1]} ELSE {})

\* new RegExp(`\\b(${months})\\.?\\s+(\\d{1,2})(?:st|nd|rd|th)?(?:,?\\s+(\\d{4}))?\\b`, 'i')
LegacyDateCands(text) ==
    LET lt == toLowerCase(text)
        at(i, k) ==
            LET p == i + Len(LegacyMonths[k])
                p2 == IF CharAt(text, p) = "." THEN p + 1 ELSE p
                ws == RunLen(text, p2, SpaceChars)
                dp == p2 + ws
            IN  IF ws >= 1
                THEN UNION {UNION {{[mi |-> k, dpos |-> dp, dl |-> dl, ypos |-> y.ypos,
                                     key |-> (((i * 32 + k) * 2 + (2 - dl)) * 2 + (1 - suf)) * 2 + y.key] :
                                       y \in LegacyYearTail(text, dp + dl + 2 * suf)} :
                                   suf \in {x \in 0..1 : x = 1 => \E o \in OrdinalSuffixes : LitAt(lt, dp + dl, o)}} :
                            dl \in {x \in 1..2 : DigitsAt(text, dp, x)}}
                ELSE {}
    IN  UNION {IF WordBoundary(text, i)
               THEN UNION {at(i, k) : k \in {x \in 1..Len(LegacyMonths) : LitAt(lt, i, LegacyMonths[x])}}
               ELSE {} : i \in 1..Len(text)}

\* new RegExp(`\\b(\\d{1,2})(?:st|nd|rd|th)?\\s+(${months})(?:,?\\s+(\\d{4}))?\\b`, 'i')
LegacyReverseCands(text) ==
    LET lt == toLowerCase(text)
        at(i, dl, suf) ==
            LET ws == RunLen(text, i + dl + 2 * suf, SpaceChars)
                mp == i + dl + 2 * suf + ws
            IN  IF ws >= 1
                THEN UNION {{[mi |-> k, dpos |-> i, dl |-> dl, ypos |-> y.ypos,
                              key |-> (((i * 2 + (2 - dl)) * 2 + (1 - suf)) * 32 + k) * 2 + y.key] :
                                y \in LegacyYearTail(text, mp + Len(LegacyMonths[k]))} :
                            k \in {x \in 1..Len(LegacyMonths) : LitAt(lt, mp, LegacyMonths[x])}}
                ELSE {}
    IN  UNION {IF WordBoundary(text, i)
               THEN UNION {UNION {at(i, dl, suf) :
                                   suf \in {x \in 0..1 : x = 1 => \E o \in OrdinalSuffixes : LitAt(lt, i + dl, o)}} :
                           dl \in {x \in 1..2 : DigitsAt(text, i, x)}}
               ELSE {} : i \in 1..Len(text)}

\* Intelligent Date Extraction (the legacy fallback); pubDate is <<>> or <<t>>
extractFutureDate(text, pubDate) ==
  CHOOSE r \in
   {LET matched == cs # {}
        c == FirstMatch(cs)
        day == ToNumber(SubSeq(text, c.dpos, c.dpos + c.dl - 1))
        explicitYear == IF c.ypos = 0 THEN 0 ELSE ToNumber(SubSeq(text, c.ypos, c.ypos + 3))
        \* new Date(`${monthStr} 1, 2000`).getMonth(): the month the name denotes
        monthIndex == monthNum(LegacyMonths[c.mi])
        year ==
            IF explicitYear # 0 THEN explicitYear
            ELSE IF pubDate # <<>>
            THEN IF monthIndex < getMonth(pubDate[1]) /\ (getMonth(pubDate[1]) - monthIndex) > 6
                 THEN getFullYear(pubDate[1]) + 1
                 ELSE getFullYear(pubDate[1])
            ELSE IF monthIndex < getMonth(now) /\ (getMonth(now) - monthIndex) > 3
                 THEN getFullYear(now) + 1
                 ELSE getFullYear(now)
        refDate == IF pubDate # <<>> THEN pubDate[1] ELSE now
    IN  IF matched /\ day # 0
        THEN <<NewDate(year, monthIndex, day)>>
        ELSE IF includes(toLowerCase(text), "tomorrow")
        THEN <<AddDays(refDate, 1)>>
        ELSE <<>> :
      cs \in {UNION {IF m1 # {} THEN m1 ELSE LegacyReverseCands(text) :
                       m1 \in {LegacyDateCands(text)}}}} : TRUE

\* /\d+ new/i.test(s)
HasCountNew(s) ==
    LET lt == toLowerCase(s)
    IN  \E i \in 1..Len(s) : CharAt(s, i) \in Digits /\ LitAt(lt, i + 1, " new")

\* /ott|releases|week/i.test(title) && /\d+ new/i.test(title)
TitleIsRoundup(title) ==
    LET lt == toLowerCase(title)
    IN  /\ includes(lt, "ott") \/ includes(lt, "releases") \/ includes(lt, "week")
        /\ HasCountNew(title)

\* a || b on strings: the empty string is falsy
OrStr(a, b) == IF a # "" THEN a ELSE b

\* Normalizes an RSS item into an Up Ahead item.  item.pubDate is <<>> (none)
\* or <<[valid, t]>>: what new Date(item.pubDate) makes of the feed's string.
\* subItems and rawSource are display data and are not carried.
normalizeUpAheadItem(item, config) ==
    CHOOSE r \in
      UNION {LET fullText == title \o " " \o description
             IN  {[id |-> OrStr(item.guid, OrStr(item.link, title)),
                   title |-> title,
                   link |-> item.link,
                   description |-> description,
                   pubDate |-> pubDate,
                   extractedDate |->
                       IF newDateResult # <<>> THEN <<newDateResult[1].start>>
                       ELSE extractFutureDate(fullText, pubDate),
                   category |->
                       IF config.category = "" \/ config.type = "search"
                       THEN detectCategory(fullText)
                       ELSE config.category,
                   isRoundup |-> TitleIsRoundup(title),
                   forwardScore |-> <<>>] :
                    newDateResult \in {extractDate(fullText, pubDate)}} :
               title \in {stripHtml(item.title)},
               description \in {stripHtml(item.description)},
               pubDate \in {IF item.pubDate # <<>> /\ item.pubDate[1].valid
                            THEN <<item.pubDate[1].t>> ELSE <<>>}} : TRUE

(***************************************************************************)
(* upAheadService.js: processUpAheadData                                   *)
(***************************************************************************)
\* Object.keys(sections)
SectionOrder ==
    <<"movies", "festivals", "alerts", "events", "sports", "shopping", "civic", "weather_alerts">>

SectionNames == {SectionOrder[k] : k \in 1..Len(SectionOrder)}

DEFAULT_MAX_AGE_HOURS == 60

\* settings?.hideOlderThanHours || 60, in minutes
maxAgeMs(s) ==
    IF s.hideOlderThanHours # <<>> /\ s.hideOlderThanHours[1] # 0
    THEN s.hideOlderThanHours[1] * 60
    ELSE DEFAULT_MAX_AGE_HOURS * 60

CATEGORY_MAX_AGE_HOURS == [weather_alerts |-> 6, alerts |-> 12, festivals |-> 336]

Min(a, b) == IF a <= b THEN a ELSE b

\* effectiveMaxAgeMs with the looser of the two limits
effectiveMaxAgeMs_loosest(category, maxAge) ==
    IF category \in DOMAIN CATEGORY_MAX_AGE_HOURS
    THEN (IF maxAge >= CATEGORY_MAX_AGE_HOURS[category] * 60
          THEN maxAge ELSE CATEGORY_MAX_AGE_HOURS[category] * 60)
    ELSE maxAge

\* the effective max age of an item of this category, in minutes
effectiveMaxAgeMs(category, maxAge) ==
    IF category \in DOMAIN CATEGORY_MAX_AGE_HOURS
    THEN Min(maxAge, CATEGORY_MAX_AGE_HOURS[category] * 60)
    ELSE maxAge

\* settings?.upAhead?.keywords || {}
userKeywords(s) ==
    IF s.upAhead # <<>> /\ s.upAhead[1].keywords # <<>>
    THEN s.upAhead[1].keywords[1]
    ELSE [k \in {} |-> <<>>]

\* obj[name] || []
ListOf(obj, name) == IF name \in DOMAIN obj THEN obj[name] ELSE <<>>

mergedNegatives(s) == ALL_NEGATIVE_KEYWORDS \o ListOf(userKeywords(s), "negative")

\* mergedPositives[cat] || []
mergedPositives(s, cat) ==
    IF cat \in SectionNames
    THEN ListOf(CATEGORY_POSITIVE_KEYWORDS, cat) \o ListOf(userKeywords(s), cat)
    ELSE <<>>

FALLBACK_LOCATIONS == <<"Chennai", "Muscat", "Trichy">>

\* (settings?.upAhead?.locations || ['Chennai', 'Muscat', 'Trichy']).map(l => l.toLowerCase())
userLocations(s) ==
    LET l == IF s.upAhead # <<>> /\ s.upAhead[1].locations # <<>>
             THEN s.upAhead[1].locations[1]
             ELSE FALLBACK_LOCATIONS
    IN  [k \in 1..Len(l) |-> toLowerCase(l[k])]

\* the first match of
\*   /(?:[bullet]|-|published)\s*(\d+)\s*(mo|month|months|w|week|weeks|y|year|years)\s*(?:ago)?/i
\* as [qty, unit], or <<>>.  The unit group takes its first alternative that
\* fits, so it is "mo", "w" or "y".  The bullet alternative is left out: the
\* texts of this model are ASCII.
staleMatch(fullText) ==
    CHOOSE r \in
      {IF ms = {} THEN <<>>
       ELSE LET first == CHOOSE m \in ms : \A o \in ms : m.pos <= o.pos
            IN  <<[qty |-> first.qty, unit |-> first.unit]>> :
         ms \in {UNION {UNION {UNION {UNION {
                   {[pos |-> i, qty |-> ToNumber(SubSeq(lt, dpos, dpos + dlen - 1)), unit |-> unit] :
                      unit \in {x \in {"mo", "w", "y"} :
                                  LitAt(lt, dpos + dlen + RunLen(lt, dpos + dlen, SpaceChars), x)}} :
                   dlen \in {RunLen(lt, dpos, Digits)} \ {0}} :
                   dpos \in {i + sepLen + RunLen(lt, i + sepLen, SpaceChars)}} :
                   sepLen \in (IF LitAt(lt, i, "-") THEN {1}
                               ELSE IF LitAt(lt, i, "published") THEN {9} ELSE {})} :
                   lt \in {toLowerCase(fullText)}, i \in 1..Len(fullText)}}} : TRUE

\* /ott|releases|week|weekend/i.test(fullText) && /\d+ new/i.test(fullText)
TextIsRoundup(fullText) ==
    /\ \/ includes(fullText, "ott") \/ includes(fullText, "releases")
       \/ includes(fullText, "week") \/ includes(fullText, "weekend")
    /\ HasCountNew(fullText)

\* FORWARD_LOOKING_SIGNALS.reduce((score, signal) => fullText.includes(signal) ? score + 1 : score, 0)
forwardScoreOf(fullText) ==
    Cardinality({k \in 1..Len(FORWARD_LOOKING_SIGNALS) : includes(fullText, FORWARD_LOOKING_SIGNALS[k])})

Layer3Categories == {"movies", "events", "sports", "shopping"}

\* the date requirement of the sections applied to festivals only
PlannerCategories_festivalsOnly == {"festivals"}

PlannerCategories == {"movies", "festivals", "events", "sports", "shopping", "civic"}

\* getDayLabel(date): "Today", "Tomorrow", or the weekday, month and day of
\* the local calendar day (toLocaleDateString with weekday, month, day)
getDayLabel(date) ==
    LET today == StartOfDay(now)
        d == StartOfDay(date)
    IN  IF d = today THEN [kind |-> "Today", wd |-> 0, m |-> 0, d |-> 0]
        ELSE IF d = AddDays(today, 1) THEN [kind |-> "Tomorrow", wd |-> 0, m |-> 0, d |-> 0]
        ELSE [kind |-> "Date", wd |-> getDay(d), m |-> getMonth(d), d |-> getDate(d)]

getItemType(category) ==
    CASE category = "movies" -> "movie"
      [] category = "events" -> "event"
      [] category = "festivals" -> "festival"
      [] category = "alerts" -> "alert"
      [] category = "sports" -> "sport"
      [] category = "shopping" -> "shopping"
      [] category = "civic" -> "civic"
      [] category = "weather_alerts" -> "weather_alert"
      [] OTHER -> "event"

SECTION_LIMIT == 5

WEEK_DAYS == 7

\* item.title + " " + item.description, lower-cased
FullTextOf(item) == toLowerCase(item.title \o " " \o item.description)

\* the forEach body without the check of seenIds: an id seen before is
\* processed again
IterationExit_noDedup(item, seen, s) ==
  CHOOSE r \in
   {LET inSections == item.category \in SectionNames
    IN  IF item.pubDate = <<>> THEN "no_pubdate"
        ELSE IF now - item.pubDate[1] > effectiveMaxAgeMs(item.category, maxAgeMs(s)) THEN "too_old"
        ELSE IF stale # <<>> /\ (stale[1].unit \in {"mo", "y"} \/ (stale[1].unit = "w" /\ stale[1].qty >= 1))
        THEN "stale_marker"
        ELSE IF ~TextIsRoundup(fullText) /\ SomeKeyword(fullText, mergedNegatives(s)) THEN "negative"
        ELSE IF /\ Len(allPositive) > 0
                /\ item.category \in Layer3Categories
                /\ ~SomeKeyword(fullText, allPositive)
                /\ forwardScoreOf(fullText) = 0
        THEN "not_relevant"
        ELSE IF /\ item.category \in {"alerts", "civic"}
                /\ ~\E k \in 1..Len(locs) : includes(fullText, locs[k])
        THEN "no_location"
        ELSE IF /\ inSections /\ item.category \in PlannerCategories
                /\ item.extractedDate = <<>> /\ ~item.isRoundup
        THEN "no_date"
        ELSE IF /\ inSections /\ item.category = "festivals" /\ item.extractedDate # <<>>
                /\ item.extractedDate[1] - today < -(3 * MinutesPerDay)
        THEN "past_festival"
        ELSE IF /\ inSections /\ item.category # "festivals"
                /\ item.category \in PlannerCategories /\ item.extractedDate # <<>>
                /\ item.extractedDate[1] < today
        THEN "past_date"
        ELSE "kept" :
      fullText \in {FullTextOf(item)}, today \in {StartOfDay(now)},
      stale \in {staleMatch(FullTextOf(item))},
      allPositive \in {mergedPositives(s, item.category)},
      locs \in {userLocations(s)}} : TRUE

\* the forEach body were it to return at once for an item that carries the
\* _forwardScore of an earlier call
IterationExit_skipScored(item, seen, s) ==
    IF item.forwardScore # <<>> THEN "duplicate" ELSE IterationExit_noDedup(item, seen \cup {item.id}, s)

\* the exit one pass of the forEach body takes for item: the return statement
\* it leaves by, or "kept" when it runs to the end
IterationExit(item, seen, s) ==
  CHOOSE r \in
   {LET inSections == item.category \in SectionNames
    IN  IF item.id \in seen THEN "duplicate"
        ELSE IF item.pubDate = <<>> THEN "no_pubdate"
        ELSE IF now - item.pubDate[1] > effectiveMaxAgeMs(item.category, maxAgeMs(s)) THEN "too_old"
        ELSE IF stale # <<>> /\ (stale[1].unit \in {"mo", "y"} \/ (stale[1].unit = "w" /\ stale[1].qty >= 1))
        THEN "stale_marker"
        ELSE IF ~TextIsRoundup(fullText) /\ SomeKeyword(fullText, mergedNegatives(s)) THEN "negative"
        ELSE IF /\ Len(allPositive) > 0
                /\ item.category \in Layer3Categories
                /\ ~SomeKeyword(fullText, allPositive)
                /\ forwardScoreOf(fullText) = 0
        THEN "not_relevant"
        ELSE IF /\ item.category \in {"alerts", "civic"}
                /\ ~\E k \in 1..Len(locs) : includes(fullText, locs[k])
        THEN "no_location"
        ELSE IF /\ inSections /\ item.category \in PlannerCategories
                /\ item.extractedDate = <<>> /\ ~item.isRoundup
        THEN "no_date"
        ELSE IF /\ inSections /\ item.category = "festivals" /\ item.extractedDate # <<>>
                /\ item.extractedDate[1] - today < -(3 * MinutesPerDay)
        THEN "past_festival"
        ELSE IF /\ inSections /\ item.category # "festivals"
                /\ item.category \in PlannerCategories /\ item.extractedDate # <<>>
                /\ item.extractedDate[1] < today
        THEN "past_date"
        ELSE "kept" :
      fullText \in {FullTextOf(item)}, today \in {StartOfDay(now)},
      stale \in {staleMatch(FullTextOf(item))},
      allPositive \in {mergedPositives(s, item.category)},
      locs \in {userLocations(s)}} : TRUE

\* the words list.some(w => matchesKeyword(fullText, w.toLowerCase())) hands
\* to matchesWord: those without a space, up to the first keyword that matches
WordsTested(fullText, list) ==
    UNION {{toLowerCase(list[k]) :
               k \in {x \in 1..Len(list) : /\ ~includes(toLowerCase(list[x]), " ")
                                           /\ \A h \in hits : x <= h}} :
           hits \in {{k \in 1..Len(list) : matchesKeyword(fullText, toLowerCase(list[k]))}}}

\* the words one pass of the forEach body adds to _wbCache when it leaves by
\* exit: Layer 1 runs unless the text is a roundup, Layer 3 when the category
\* has positive keywords
compiledBy(item, exit, s) ==
    UNION {(IF exit \notin {"duplicate", "no_pubdate", "too_old", "stale_marker"}
               /\ ~TextIsRoundup(fullText)
            THEN WordsTested(fullText, mergedNegatives(s)) ELSE {})
           \cup (IF exit \notin {"duplicate", "no_pubdate", "too_old", "stale_marker", "negative"}
                 THEN WordsTested(fullText, mergedPositives(s, item.category)) ELSE {}) :
           fullText \in {FullTextOf(item)}}

\* the exits taken after item._forwardScore was attached
ScoredExits == {"no_date", "past_festival", "past_date", "kept"}

\* extractedDate.toDateString(): the local calendar day
toDateString(t) == CivilOfDay(LocalDay(t))

displayItemOf(item) ==
    [title |-> item.title,
     link |-> item.link,
     date |-> IF item.extractedDate # <<>> THEN <<toDateString(item.extractedDate[1])>> ELSE <<>>,
     isRoundup |-> item.isRoundup]

\* the target date without the fallbacks to today
targetDateOf_noFallback(item) == item.extractedDate

\* the date the timeline files the item under, <<>> when none
targetDateOf(item) ==
    IF item.extractedDate # <<>> THEN item.extractedDate
    ELSE IF /\ item.category \in {"alerts", "weather_alerts"}
            /\ item.pubDate # <<>> /\ now - item.pubDate[1] < 24 * 60
    THEN <<StartOfDay(now)>>
    ELSE IF item.isRoundup THEN <<StartOfDay(now)>>
    ELSE <<>>

timelineItemOf(item, score) ==
    [id |-> item.id,
     type |-> getItemType(item.category),
     title |-> item.title,
     tags |-> <<item.category>>,
     link |-> item.link,
     isRoundup |-> item.isRoundup,
     forwardScore |-> score]

\* timelineMap after the item is filed under dateKey (a day is created at the
\* end of the map when the key is new)
timelinePush(map, dateKey, label, titem) ==
    IF \E k \in 1..Len(map) : map[k].date = dateKey
    THEN [k \in 1..Len(map) |->
            IF map[k].date = dateKey
            THEN [map[k] EXCEPT !.items = Append(@, titem)]
            ELSE map[k]]
    ELSE Append(map, [date |-> dateKey, dayLabel |-> label, items |-> <<titem>>])

\* a.date.localeCompare(b.date) < 0 on YYYY-MM-DD keys
KeyBefore(a, b) ==
    \/ a.date.y < b.date.y
    \/ a.date.y = b.date.y /\ a.date.m < b.date.m
    \/ a.date.y = b.date.y /\ a.date.m = b.date.m /\ a.date.d < b.date.d

\* the comparison of the scores turned around
ScoreBefore_ascending(a, b) == a.forwardScore < b.forwardScore

\* (b._forwardScore || 0) - (a._forwardScore || 0) < 0
ScoreBefore(a, b) == a.forwardScore > b.forwardScore

\* Array.prototype.sort: stable
StableSort(s, Before(_, _)) ==
    LET rank(i) == 1 + Cardinality({j \in 1..Len(s) :
                        Before(s[j], s[i]) \/ (~Before(s[i], s[j]) /\ j < i)})
    IN  [r \in 1..Len(s) |-> s[CHOOSE i \in 1..Len(s) : rank(i) = r]]

\* delete item._forwardScore
cleanItem(t) ==
    [id |-> t.id, type |-> t.type, title |-> t.title, tags |-> t.tags, link |-> t.link,
     isRoundup |-> t.isRoundup]

sortedTimelineOf(map) ==
    LET days == StableSort(map, KeyBefore)
    IN  [k \in 1..Len(days) |->
            LET its == StableSort(days[k].items, ScoreBefore)
            IN  [date |-> days[k].date, dayLabel |-> days[k].dayLabel,
                 items |-> [j \in 1..Len(its) |-> cleanItem(its[j])]]]

\* the plan's entries in the order they are written: one per i = 0..6, named
\* by the local weekday of today + i and looked up by that instant's UTC day
generateWeeklyPlan(timeline) ==
    [i \in 1..WEEK_DAYS |->
        LET d == AddDays(now, i - 1)
            dateStr == UTCDateKey(d)
            hit == {k \in 1..Len(timeline) : timeline[k].date = dateStr}
            day == timeline[CHOOSE k \in hit : \A o \in hit : k <= o]
        IN  [dayName |-> getDay(d),
             items |-> IF hit # {}
                       THEN [j \in 1..Len(day.items) |->
                                [title |-> day.items[j].title, type |-> day.items[j].type,
                                 link |-> day.items[j].link]]
                       ELSE <<>>]]

EmptySections == [c \in SectionNames |-> <<>>]

(***************************************************************************)
(* dateExtractor.js: Planner Storage, a day-keyed store in localStorage.   *)
(* A data object is a function from day keys to lists of records; the      *)
(* stored content is [kind, days]: kind "json" is the JSON text of the     *)
(* data object days, "garbage" a text JSON.parse rejects, "null" the JSON  *)
(* text of a value that is no object.  category and link of a record are   *)
(* display data and are not carried.                                       *)
(***************************************************************************)
PRUNE_DAYS_PAST == 7

\* {}
EmptyDays == [k \in {} |-> <<>>]

\* what load() returns: an object with its days, or a value that is no object
Parsed(obj, days) == [obj |-> obj, days |-> days]

\* getItem and JSON.parse, {} when there is no entry or either of them throws
load(st) ==
    IF fault = "denied" \/ st = <<>> \/ st[1].kind = "garbage"
    THEN Parsed(TRUE, EmptyDays)
    ELSE Parsed(st[1].kind = "json", st[1].days)

\* the stored content after save(data) over the content st: setItem of the
\* JSON text, nothing when setItem throws
save(st, data) == IF fault = "none" THEN <<[kind |-> "json", days |-> data]>> ELSE st

\* Remove entries older than PRUNE_DAYS_PAST: key < cutoffKey on YYYY-MM-DD
prune(data) ==
    [k \in {x \in DOMAIN data :
               ~KeyBefore([date |-> x], [date |-> UTCDateKey(AddDays(now, -PRUNE_DAYS_PAST))])} |->
        data[k]]

\* new Set(s.split(/\s+/)): the maximal runs of characters that are no white
\* space, and the empty string when s is empty or starts or ends with white space
splitWords(s) ==
    {SubSeq(s, i, CHOOSE j \in i..Len(s) :
                      /\ \A k \in i..j : CharAt(s, k) \notin SpaceChars
                      /\ (j = Len(s) \/ CharAt(s, j + 1) \in SpaceChars)) :
        i \in {x \in 1..Len(s) : /\ CharAt(s, x) \notin SpaceChars
                                 /\ (x = 1 \/ CharAt(s, x - 1) \in SpaceChars)}}
    \cup (IF s = "" \/ CharAt(s, 1) \in SpaceChars \/ CharAt(s, Len(s)) \in SpaceChars
          THEN {""} ELSE {})

\* Simple title similarity (Jaccard on word sets), as the fraction n / d
similarity(a, b) ==
    CHOOSE r \in {[n |-> Cardinality(wa \cap wb), d |-> Cardinality(wa \cup wb)] :
                    wa \in {splitWords(toLowerCase(a))}, wb \in {splitWords(toLowerCase(b))}} : TRUE

\* isDuplicate with a threshold of 0.5 for the title similarity
isDuplicate_halfThreshold(existing, newItem) ==
    \E k \in 1..Len(existing) :
        \/ existing[k].id = newItem.id
        \/ /\ existing[k].title # "" /\ newItem.title # ""
           /\ \E sim \in {similarity(existing[k].title, newItem.title)} : 10 * sim.n > 5 * sim.d

\* isDuplicate that compares ids only
isDuplicate_idOnly(existing, newItem) ==
    \E k \in 1..Len(existing) : existing[k].id = newItem.id

\* Check if an item is a duplicate of any existing item on that day
\* (similarity > 0.7)
isDuplicate(existing, newItem) ==
    \E k \in 1..Len(existing) :
        \/ existing[k].id = newItem.id
        \/ /\ existing[k].title # "" /\ newItem.title # ""
           /\ \E sim \in {similarity(existing[k].title, newItem.title)} : 10 * sim.n > 7 * sim.d

\* the inner loop of merge: the day's list after the items were pushed
RECURSIVE pushItems(_, _)
pushItems(list, items) ==
    IF items = <<>> THEN list
    ELSE pushItems(IF isDuplicate(list, Head(items)) THEN list
                   ELSE Append(list, [id |-> Head(items).id, title |-> Head(items).title,
                                      addedAt |-> now]),
                   Tail(items))

\* the outer loop of merge: the data object after every key was treated
RECURSIVE mergeKeys(_, _, _)
mergeKeys(data, dateKeys, items) ==
    IF dateKeys = <<>> THEN data
    ELSE mergeKeys([k \in DOMAIN data \cup {Head(dateKeys)} |->
                       IF k = Head(dateKeys)
                       THEN pushItems(IF k \in DOMAIN data THEN data[k] ELSE <<>>, items)
                       ELSE data[k]],
                   Tail(dateKeys), items)

\* plannerStorage.merge run from load to save on the stored content st:
\* whether it threw (prune of a value that is no object), and the content left
merge(st, dateKeys, items) ==
    CHOOSE r \in
      {IF data.obj
       THEN [raised |-> FALSE, storage |-> save(st, mergeKeys(prune(data.days), dateKeys, items))]
       ELSE [raised |-> TRUE, storage |-> st] : data \in {load(st)}} : TRUE

\* the result getUpcomingDays builds from the data object getAll returned
upcomingDays(data, n) ==
    SelectSeq([i \in 1..n |->
                  CHOOSE r \in {[date |-> key, items |-> IF key \in DOMAIN data THEN data[key] ELSE <<>>] :
                                  key \in {UTCDateKey(AddDays(StartOfDay(now), i - 1))}} : TRUE],
              LAMBDA e : e.items # <<>>)

\* step 4 of fetchUpAheadData, the loop over allItems inside try: the stored
\* content it leaves and whether a merge threw, which ends the loop
RECURSIVE persistItems(_, _)
persistItems(st, items) ==
    IF items = <<>> THEN [raised |-> FALSE, storage |-> st]
    ELSE IF Head(items).extractedDate = <<>> THEN persistItems(st, Tail(items))
    ELSE CHOOSE r \in
           {IF keys = <<>> THEN persistItems(st, Tail(items))
            ELSE IF merge(st, keys, <<Head(items)>>).raised THEN [raised |-> TRUE, storage |-> st]
            ELSE persistItems(merge(st, keys, <<Head(items)>>).storage, Tail(items)) :
              keys \in {expandDateKeys(extractDate(Head(items).title \o " " \o Head(items).description,
                                                  Head(items).pubDate), 14)}} : TRUE

\* removeItem between load and save: the data object without the record
removeFrom(data, dateKey, itemId) ==
    [k \in {x \in DOMAIN data :
               x = dateKey => \E i \in 1..Len(data[x]) : data[x][i].id # itemId} |->
        IF k = dateKey THEN SelectSeq(data[k], LAMBDA r : r.id # itemId) ELSE data[k]]

(***************************************************************************)
(* fetchUpAheadData: the steps of one ingestion run                        *)
(***************************************************************************)
\* results.flat() with items.map(item => normalizeUpAheadItem(item, feedConfig));
\* processUpAheadData then starts with empty sections, map and id set
Normalize ==
    /\ pc = "fetched"
    /\ allItems' = [k \in 1..Len(fetched) |-> normalizeUpAheadItem(fetched[k].item, fetched[k].config)]
    /\ pc' = "processing"
    /\ idx' = 1
    /\ seenIds' = {}
    /\ sections' = EmptySections
    /\ timelineMap' = <<>>
    /\ outcome' = <<>>
    /\ UNCHANGED <<settings, fetched, organizedData, wbCache, run, firstData>>
    /\ UNCHANGED dvars
    /\ UNCHANGED <<svars, uvars>>

\* one pass of rawItems.forEach
ProcessItem ==
    /\ pc = "processing"
    /\ idx <= Len(allItems)
    /\ \E item \in {allItems[idx]} :
       \E exit \in {IterationExit(item, seenIds, settings)},
          score \in {forwardScoreOf(FullTextOf(item))},
          target \in {targetDateOf(item)} :
           /\ outcome' = Append(outcome, exit)
           /\ seenIds' = seenIds \cup {item.id}
           /\ allItems' = IF exit \in ScoredExits
                          THEN [allItems EXCEPT ![idx].forwardScore = <<score>>]
                          ELSE allItems
           /\ sections' = IF exit = "kept" /\ item.category \in SectionNames
                          THEN [sections EXCEPT ![item.category] = Append(@, displayItemOf(item))]
                          ELSE sections
           /\ timelineMap' = IF exit = "kept" /\ target # <<>> /\ target[1] >= StartOfDay(now)
                             THEN timelinePush(timelineMap, UTCDateKey(target[1]),
                                               getDayLabel(target[1]), timelineItemOf(item, score))
                             ELSE timelineMap
           /\ wbCache' = wbCache \cup compiledBy(item, exit, settings)
    /\ idx' = idx + 1
    /\ UNCHANGED <<settings, fetched, pc, organizedData, run, firstData>>
    /\ UNCHANGED dvars
    /\ UNCHANGED <<svars, uvars>>

\* after the loop: sort, strip the score, limit the sections, build the plan
Finalize ==
    /\ pc = "processing"
    /\ idx > Len(allItems)
    /\ LET sortedTimeline == sortedTimelineOf(timelineMap)
       IN  organizedData' =
              <<[timeline |-> sortedTimeline,
                 sections |-> [c \in SectionNames |->
                                  SubSeq(sections[c], 1, Min(SECTION_LIMIT, Len(sections[c])))],
                 weekly_plan |-> generateWeeklyPlan(sortedTimeline)]>>
    /\ pc' = "done"
    /\ UNCHANGED <<settings, fetched, allItems, idx, seenIds, sections, timelineMap, outcome,
                   wbCache, run, firstData>>
    /\ UNCHANGED dvars
    /\ UNCHANGED <<svars, uvars>>

\* processUpAheadData(rawItems, settings) is called again with the items and
\* the settings of the call that returned, the clock unchanged: the items
\* carry the _forwardScore of that call, _wbCache holds its patterns
Rerun ==
    /\ pc = "done"
    /\ run = 1
    /\ run' = 2
    /\ firstData' = organizedData
    /\ organizedData' = <<>>
    /\ pc' = "processing"
    /\ idx' = 1
    /\ seenIds' = {}
    /\ sections' = EmptySections
    /\ timelineMap' = <<>>
    /\ outcome' = <<>>
    /\ UNCHANGED <<settings, fetched, allItems, wbCache>>
    /\ UNCHANGED dvars
    /\ UNCHANGED <<svars, uvars>>

\* step 4 of fetchUpAheadData, and its return
Persist ==
    /\ pc = "done"
    /\ \E r \in {persistItems(storage, allItems)} :
          /\ storage' = r.storage
          /\ sret' = [op |-> "persist", raised |-> r.raised, value |-> <<>>]
    /\ pc' = "returned"
    /\ UNCHANGED <<settings, fetched, allItems, idx, seenIds, sections, timelineMap, outcome,
                   organizedData, wbCache, run, firstData>>
    /\ UNCHANGED <<dvars, uvars>>
    /\ UNCHANGED <<fault, wpc, wop, wdata, wargs, nops>>

(***************************************************************************)
(* UpAheadPage: the page that shows the data, its cache and its fetches    *)
(***************************************************************************)
\* the values JSON.stringify(settings.upAhead) takes between two mounts
Hashes == {"h1", "h2"}

\* what fetchUpAheadData resolves to: a timeline without days, or with some
DataKinds == {"empty", "full"}

\* no page is mounted, the module's cache is empty, nothing is awaited
NoPage ==
    /\ mounted = FALSE
    /\ pageData = <<>>
    /\ loading = FALSE
    /\ hasFetched = FALSE
    /\ settingsHash = ""
    /\ dataCache = [h \in Hashes |-> <<>>]
    /\ inflight = {}

\* cached && (Date.now() - cached.timestamp < CACHE_TTL)
cacheHit(h) == dataCache[h] # <<>> /\ dataCache[h][1].fresh

\* a call of fetchUpAheadData begun by loadData or by retryFetch; live while
\* isMounted holds (cancelled does not)
Fetch(by, h) == [by |-> by, hash |-> h, live |-> TRUE]

\* the page is mounted: useState(null), useState(true), useRef(false); the
\* first effect calls loadData, which serves the cached data or awaits a
\* fetch; the second effect finds hasFetched.current false
Mount ==
    /\ ~mounted
    /\ mounted' = TRUE
    /\ hasFetched' = FALSE
    /\ \E h \in Hashes :
          /\ settingsHash' = h
          /\ IF cacheHit(h)
             THEN /\ pageData' = <<dataCache[h][1].data>>
                  /\ loading' = FALSE
                  /\ inflight' = inflight
             ELSE /\ pageData' = <<>>
                  /\ loading' = TRUE
                  /\ inflight' = inflight \cup {Fetch("loadData", h)}
    /\ UNCHANGED dataCache
    /\ UNCHANGED <<dvars, pvars, svars>>

\* the user leaves the page: the cleanups set isMounted = false and
\* cancelled = true, the state of the component is gone
Unmount ==
    /\ mounted
    /\ mounted' = FALSE
    /\ inflight' = {[f EXCEPT !.live = FALSE] : f \in inflight}
    /\ pageData' = <<>>
    /\ loading' = FALSE
    /\ hasFetched' = FALSE
    /\ settingsHash' = ""
    /\ UNCHANGED dataCache
    /\ UNCHANGED <<dvars, pvars, svars>>

\* the page renders the empty state, with the Retry button
RetryShown == mounted /\ ~loading /\ (pageData = <<>> \/ pageData = <<"empty">>)

\* onClick of Retry, and the effects of the render it causes: the first
\* effect does not run (settings.upAhead is unchanged), the second fires
\* retryFetch only if hasFetched.current
handleRetry ==
    /\ RetryShown
    /\ dataCache' = [dataCache EXCEPT ![settingsHash] = <<>>]
    /\ pageData' = <<>>
    /\ loading' = TRUE
    /\ inflight' = IF hasFetched THEN inflight \cup {Fetch("retryFetch", settingsHash)} ELSE inflight
    /\ UNCHANGED <<mounted, hasFetched, settingsHash>>
    /\ UNCHANGED <<dvars, pvars, svars>>

\* an awaited fetchUpAheadData resolves or rejects: the continuation of
\* loadData or retryFetch runs, and does nothing when the page was left
FetchReturns ==
    /\ \E f \in inflight, result \in DataKinds \cup {"rejected"} :
          /\ inflight' = inflight \ {f}
          /\ IF f.live
             THEN /\ loading' = FALSE
                  /\ pageData' = IF result = "rejected" THEN pageData ELSE <<result>>
                  /\ hasFetched' = (hasFetched \/ f.by = "loadData")
                  /\ dataCache' = IF result = "rejected" THEN dataCache
                                  ELSE [dataCache EXCEPT ![f.hash] = <<[data |-> result, fresh |-> TRUE]>>]
             ELSE UNCHANGED <<pageData, loading, hasFetched, dataCache>>
    /\ UNCHANGED <<mounted, settingsHash>>
    /\ UNCHANGED <<dvars, pvars, svars>>

\* CACHE_TTL passes: Date.now() - cached.timestamp < CACHE_TTL fails for the
\* entries the cache holds
Expire ==
    /\ \E h \in Hashes : cacheHit(h)
    /\ dataCache' = [h \in Hashes |-> IF dataCache[h] = <<>> THEN <<>>
                                        ELSE <<[dataCache[h][1] EXCEPT !.fresh = FALSE]>>]
    /\ UNCHANGED <<mounted, pageData, loading, hasFetched, settingsHash, inflight>>
    /\ UNCHANGED <<dvars, pvars, svars>>

(***************************************************************************)
(* Clocks: the instants the runs below start from, as local wall-clock     *)
(* times (month index 0-based, min = minute of the day)                    *)
(***************************************************************************)
TimeZones == {0, 330, -480}

At(c) == NewDate(c.y, c.m, c.d) + c.min

\* the tabs of the browser that share the stored content
Writers == {1, 2}

\* the module was just loaded: no pattern is kept, no call has returned
FirstCall ==
    /\ wbCache = {}
    /\ run = 1
    /\ firstData = <<>>

\* no planner operation has run
StoreIdle ==
    /\ wpc = [w \in Writers |-> "idle"]
    /\ wop = [w \in Writers |-> ""]
    /\ wdata = [w \in Writers |-> EmptyDays]
    /\ wargs = [w \in Writers |-> <<>>]
    /\ sret = [op |-> "", raised |-> FALSE, value |-> <<>>]
    /\ nops = 0

RefClocks ==
    {[y |-> 2026, m |-> 0, d |-> 10, min |-> 540],     \* 2026-01-10 09:00
     [y |-> 2026, m |-> 1, d |-> 9, min |-> 0],        \* 2026-02-09 00:00
     [y |-> 2026, m |-> 1, d |-> 9, min |-> 1],        \* 2026-02-09 00:01
     [y |-> 2026, m |-> 5, d |-> 19, min |-> 1290],    \* 2026-06-19 21:30 (a Friday)
     [y |-> 2026, m |-> 11, d |-> 31, min |-> 1410]}   \* 2026-12-31 23:30

NowClock == [y |-> 2026, m |-> 2, d |-> 1, min |-> 720] \* 2026-03-01 12:00

(***************************************************************************)
(* Date extraction as a program of its own: a caller hands extractDate a   *)
(* text and a publication date (or none) and gets the result back          *)
(***************************************************************************)
\* the texts handed to extractDate, each with what a reader sees in it:
\* form: how the (first) date is written; y/m/d: its year (0: none), month
\* index and day; rel: the text also holds a relative anchor
DateCases ==
    {[s |-> "event on March 5",             form |-> "md",        y |-> 0,    m |-> 2,  d |-> 5,  rel |-> FALSE],
     [s |-> "event on Dec 20",              form |-> "md",        y |-> 0,    m |-> 11, d |-> 20, rel |-> FALSE],
     [s |-> "concert on Jan 10",            form |-> "md",        y |-> 0,    m |-> 0,  d |-> 10, rel |-> FALSE],
     [s |-> "premiere on 5th March",        form |-> "dm",        y |-> 0,    m |-> 2,  d |-> 5,  rel |-> FALSE],
     [s |-> "release on 2026-02-14",        form |-> "iso",       y |-> 2026, m |-> 1,  d |-> 14, rel |-> FALSE],
     [s |-> "show on 14/02/2026",           form |-> "numeric",   y |-> 2026, m |-> 1,  d |-> 14, rel |-> FALSE],
     [s |-> "show on 14-02-2025",           form |-> "numeric",   y |-> 2025, m |-> 1,  d |-> 14, rel |-> FALSE],
     [s |-> "Feb 14, 2025 premiere",        form |-> "mdy_comma", y |-> 2025, m |-> 1,  d |-> 14, rel |-> FALSE],
     [s |-> "February 14 2027 gala",        form |-> "mdy",       y |-> 2027, m |-> 1,  d |-> 14, rel |-> FALSE],
     [s |-> "14 February 2025 gala",        form |-> "dmy",       y |-> 2025, m |-> 1,  d |-> 14, rel |-> FALSE],
     [s |-> "14th Feb, 2025 gala",          form |-> "dmy_comma", y |-> 2025, m |-> 1,  d |-> 14, rel |-> FALSE],
     [s |-> "meet 2026-02-14 or tomorrow",  form |-> "iso",       y |-> 2026, m |-> 1,  d |-> 14, rel |-> TRUE],
     [s |-> "sale 14/02/2026 starts today", form |-> "numeric",   y |-> 2026, m |-> 1,  d |-> 14, rel |-> TRUE],
     [s |-> "tomorrow: sale till March 1",  form |-> "md",        y |-> 0,    m |-> 2,  d |-> 1,  rel |-> TRUE],
     [s |-> "Feb 10 to Feb 24 fair",        form |-> "range",     y |-> 0,    m |-> 1,  d |-> 10, rel |-> FALSE],
     [s |-> "10-24 February fest",          form |-> "range",     y |-> 0,    m |-> 1,  d |-> 10, rel |-> FALSE],
     [s |-> "fair feb 10to 24",             form |-> "range",     y |-> 0,    m |-> 1,  d |-> 10, rel |-> FALSE],
     [s |-> "10to24 february fest",         form |-> "range",     y |-> 0,    m |-> 1,  d |-> 10, rel |-> FALSE],
     [s |-> "expo Feb 10 through Feb 24",   form |-> "range",     y |-> 0,    m |-> 1,  d |-> 10, rel |-> FALSE],
     [s |-> "fair from March 3 to 9",       form |-> "range",     y |-> 0,    m |-> 2,  d |-> 3,  rel |-> FALSE],
     [s |-> "fest 10 to 24 February",       form |-> "range",     y |-> 0,    m |-> 1,  d |-> 10, rel |-> FALSE],
     [s |-> "fair feb 24to 10",             form |-> "range_rev", y |-> 0,    m |-> 1,  d |-> 24, rel |-> FALSE],
     [s |-> "offer ends Feb 12",            form |-> "deadline",  y |-> 0,    m |-> 1,  d |-> 12, rel |-> FALSE],
     [s |-> "last date March 1",            form |-> "deadline",  y |-> 0,    m |-> 2,  d |-> 1,  rel |-> FALSE],
     [s |-> "apply before March 1",         form |-> "deadline",  y |-> 0,    m |-> 2,  d |-> 1,  rel |-> FALSE],
     [s |-> "coupon valid till Feb 28",     form |-> "deadline",  y |-> 0,    m |-> 1,  d |-> 28, rel |-> FALSE],
     [s |-> "power cut tomorrow",           form |-> "none",      y |-> 0,    m |-> 0,  d |-> 0,  rel |-> TRUE],
     [s |-> "shops open today",             form |-> "none",      y |-> 0,    m |-> 0,  d |-> 0,  rel |-> TRUE],
     [s |-> "match this Friday",            form |-> "none",      y |-> 0,    m |-> 0,  d |-> 0,  rel |-> TRUE],
     [s |-> "plan for next week",           form |-> "none",      y |-> 0,    m |-> 0,  d |-> 0,  rel |-> TRUE],
     [s |-> "market this weekend",          form |-> "none",      y |-> 0,    m |-> 0,  d |-> 0,  rel |-> TRUE],
     [s |-> "rain for next 3 days",         form |-> "none",      y |-> 0,    m |-> 0,  d |-> 0,  rel |-> TRUE],
     [s |-> "no date in this text",         form |-> "none",      y |-> 0,    m |-> 0,  d |-> 0,  rel |-> FALSE],
     [s |-> "",                             form |-> "none",      y |-> 0,    m |-> 0,  d |-> 0,  rel |-> FALSE]}

DateCase(s) == CHOOSE c \in DateCases : c.s = s

InitDate ==
    /\ tz \in TimeZones
    /\ now = At(NowClock)
    /\ dtext \in {c.s : c \in DateCases}
    /\ dpub \in {<<>>} \cup {<<At(c)>> : c \in RefClocks}
    /\ dres = <<>>
    /\ dpc = "call"
    /\ dmax = 0
    /\ dkeys = <<>>
    /\ settings = <<>>
    /\ fetched = <<>>
    /\ allItems = <<>>
    /\ pc = "idle"
    /\ idx = 0
    /\ seenIds = {}
    /\ sections = <<>>
    /\ timelineMap = <<>>
    /\ outcome = <<>>
    /\ organizedData = <<>>
    /\ FirstCall
    /\ NoPage
    /\ storage = <<>>
    /\ fault = "none"
    /\ StoreIdle

\* the call of extractDate returns
ExtractDate ==
    /\ dpc = "call"
    /\ dres' = extractDate(dtext, dpub)
    /\ dpc' = "done"
    /\ UNCHANGED <<now, tz, dtext, dpub, dmax, dkeys>>
    /\ UNCHANGED pvars
    /\ UNCHANGED <<svars, uvars>>

\* the maxDays arguments of the calls: the default, a small cap, and none
MaxDaysArgs == {14, 3, 0}

\* the caller expands the result into day keys
ExpandKeys ==
    /\ dpc = "done"
    /\ \E m \in MaxDaysArgs :
          /\ dmax' = m
          /\ dkeys' = expandDateKeys(dres, m)
    /\ dpc' = "expanded"
    /\ UNCHANGED <<now, tz, dtext, dpub, dres>>
    /\ UNCHANGED pvars
    /\ UNCHANGED <<svars, uvars>>

NextDate == ExtractDate \/ ExpandKeys

SpecDate == InitDate /\ [][NextDate]_vars

(***************************************************************************)
(* The ingestion run as a program: settings, and what the feeds returned   *)
(***************************************************************************)
NoSettings ==
    [categories |-> <<>>, locations |-> <<>>, hideOlderThanHours |-> <<>>,
     keywords |-> <<>>, upAhead |-> <<>>]

AllCategories == [c \in SectionNames |-> TRUE]

UserWords == [events |-> <<"gala">>, negative |-> <<"boring">>]

\* the object the Up Ahead page passes: settings.upAhead of the application
PageSettings(cats, locs, words) ==
    [NoSettings EXCEPT !.categories = <<cats>>, !.locations = <<locs>>, !.keywords = words]

\* the application's whole settings object, with the Up Ahead part nested
GlobalSettings(hide, locs, words) ==
    [NoSettings EXCEPT !.hideOlderThanHours = hide,
                       !.upAhead = <<[categories |-> <<AllCategories>>, locations |-> locs,
                                      keywords |-> words]>>]

\* settings?.categories || { movies: true, events: true, festivals: true, alerts: true, sports: true }
categoriesOf(s) ==
    IF s.categories # <<>> THEN s.categories[1]
    ELSE [c \in {"movies", "events", "festivals", "alerts", "sports"} |-> TRUE]

\* the categories STATIC_FEEDS has feeds for
STATIC_FEEDS == {"movies", "sports", "festivals", "events"}

SearchFeed == [type |-> "search", category |-> ""]

StaticFeed(cat) == [type |-> "static", category |-> cat]

\* the feed configurations urlsToFetch holds for these settings: a search per
\* query of every enabled category, and the static feeds of enabled categories
feedConfigsOf(s) ==
    LET c == categoriesOf(s)
        on == {n \in DOMAIN c : c[n]}
    IN  (IF on # {} THEN {SearchFeed} ELSE {})
        \cup {StaticFeed(n) : n \in on \cap STATIC_FEEDS}

\* item.pubDate as new Date(...) reads it: absent, unparseable, or the
\* instant `age` minutes before now
NoPub == <<>>

InvalidPub == <<[valid |-> FALSE, t |-> 0]>>

PubAgo(age) == <<[valid |-> TRUE, t |-> now - age]>>

RawItem(title, description, pubDate, guid, link) ==
    [title |-> title, description |-> description, pubDate |-> pubDate,
     guid |-> guid, link |-> link]

Fetched(title, description, pubDate, config) ==
    [item |-> RawItem(title, description, pubDate, "", ""), config |-> config]

\* --- end to end: one alert about tomorrow, two hours old, at many times of day
E2ETitle == "Chennai power cut scheduled tomorrow in Adyar"

E2ESettings == PageSettings([alerts |-> TRUE], <<"Chennai">>, <<>>)

E2EAge == 2 * 60

\* local wall-clock minutes of 2026-03-01 at which the run starts
RunMinutes == {0, 60, 119, 120, 121, 300, 329, 330, 331, 480, 720, 960, 1230, 1320, 1439}

InitE2E ==
    /\ tz \in TimeZones
    /\ now \in {At([y |-> 2026, m |-> 2, d |-> 1, min |-> k]) : k \in RunMinutes}
    /\ settings = E2ESettings
    /\ fetched = <<Fetched(E2ETitle, "", PubAgo(E2EAge), SearchFeed)>>

\* --- freshness: items of each kind of category at ages around every limit
FreshTexts ==
    {[t |-> "IMD issues heavy rain warning for Chennai", c |-> SearchFeed],
     [t |-> "Traffic advisory issued for Chennai roads", c |-> SearchFeed],
     [t |-> "Pongal holiday declared on March 15",       c |-> SearchFeed],
     [t |-> "New movie releasing in theatres on March 20", c |-> SearchFeed],
     [t |-> "City council meets on Friday",              c |-> SearchFeed],
     [t |-> "Heritage walk through Mylapore on March 7", c |-> StaticFeed("events")]}

\* ages in minutes: around 4h, 6h, 12h, 60h, 336h and 400h
FreshAges ==
    {120, 240, 241, 360, 361, 420, 600, 720, 721, 3600, 3601, 20160, 20161, 24000, 24001}

FreshHides == {<<>>, <<4>>, <<60>>, <<400>>}

InitFresh ==
    /\ tz = 330
    /\ now = At(NowClock)
    /\ \E h \in FreshHides : settings = [NoSettings EXCEPT !.hideOlderThanHours = h]
    /\ \E x \in FreshTexts, pd \in {NoPub, InvalidPub} \cup {PubAgo(a) : a \in FreshAges} :
          fetched = <<Fetched(x.t, "", pd, x.c)>>

\* --- filters: one fresh item (two hours old) under each kind of settings
\* the page's settings with the toggle of shopping switched off
ShoppingOff == PageSettings([c \in SectionNames |-> c # "shopping"], <<"Chennai">>, <<>>)

FilterSettings ==
    {NoSettings,
     E2ESettings,
     ShoppingOff,
     PageSettings(AllCategories, <<"Delhi">>, <<>>),
     PageSettings(AllCategories, <<"Chennai">>, <<UserWords>>),
     GlobalSettings(<<>>, <<<<"Delhi">>>>, <<UserWords>>),
     GlobalSettings(<<>>, <<<<>>>>, <<>>)}

FilterPool ==
    {[t |-> "preview screening announced", d |-> "", c |-> SearchFeed],
     [t |-> "preview screening announced", d |-> "", c |-> StaticFeed("movies")],
     [t |-> "this movie review is harsh", d |-> "", c |-> SearchFeed],
     [t |-> "33 new OTT releases this week, full review", d |-> "", c |-> SearchFeed],
     [t |-> "Concert review: tickets available tomorrow",
      d |-> "12 new shows this week at the stadium", c |-> SearchFeed],
     [t |-> "Concert review: tickets available tomorrow", d |-> "", c |-> SearchFeed],
     [t |-> "A boring workshop on pottery opens March 7", d |-> "", c |-> SearchFeed],
     [t |-> "Desktop 10 expo opens in Chennai on March 7", d |-> "", c |-> SearchFeed],
     [t |-> "Theatres reopen in Chennai on March 7", d |-> "", c |-> SearchFeed],
     [t |-> "Delhi traffic advisory issued for tomorrow", d |-> "", c |-> SearchFeed],
     [t |-> "Traffic advisory issued for Muscat tomorrow", d |-> "", c |-> SearchFeed],
     [t |-> "Road closure near the harbour tomorrow", d |-> "", c |-> SearchFeed],
     [t |-> "Minister to open rally in Trichy on March 7", d |-> "", c |-> SearchFeed],
     [t |-> "Minister to address protest in Delhi on March 7", d |-> "", c |-> SearchFeed],
     [t |-> "Gala evening at the museum on March 7", d |-> "", c |-> StaticFeed("events")],
     [t |-> "Cricket fans gather in the city on March 7", d |-> "", c |-> SearchFeed],
     [t |-> "Cricket camp scheduled for March 7", d |-> "", c |-> SearchFeed],
     [t |-> "Big discount at the mall on March 7", d |-> "", c |-> SearchFeed],
     [t |-> "Mega sale at the mall on March 7", d |-> "", c |-> SearchFeed],
     [t |-> "Day of the national flag on March 7", d |-> "", c |-> StaticFeed("festivals")],
     [t |-> "Pongal festival falls on Feb 27", d |-> "", c |-> SearchFeed],
     [t |-> "Pongal festival falls on Feb 20", d |-> "", c |-> SearchFeed],
     [t |-> "Heat wave conditions to continue", d |-> "", c |-> SearchFeed],
     [t |-> "Shutters down in Chennai on March 7", d |-> "", c |-> SearchFeed],
     [t |-> "movie show timings announced", d |-> "", c |-> SearchFeed],
     [t |-> "cricket match film festival", d |-> "", c |-> SearchFeed],
     [t |-> "festival sale offer at expo", d |-> "", c |-> SearchFeed],
     [t |-> "power cut alert in Chennai", d |-> "", c |-> SearchFeed],
     [t |-> "IMD cyclone warning alert", d |-> "", c |-> SearchFeed],
     [t |-> "water supply hit by cyclone in Chennai", d |-> "", c |-> SearchFeed],
     [t |-> "minister visits exhibition on March 7", d |-> "", c |-> SearchFeed],
     [t |-> "ideal weather today", d |-> "", c |-> SearchFeed],
     [t |-> "comedy workshop on March 7", d |-> "", c |-> SearchFeed],
     [t |-> "football tournament holiday", d |-> "", c |-> SearchFeed],
     [t |-> "warning issued for Chennai", d |-> "", c |-> SearchFeed],
     [t |-> "Booking opens for Diwali sale", d |-> "", c |-> SearchFeed],
     [t |-> "nothing of note", d |-> "", c |-> SearchFeed],
     [t |-> "Big film launch published 3 weeks ago", d |-> "", c |-> SearchFeed],
     [t |-> "Expo opens Oct. 25 in Chennai", d |-> "", c |-> SearchFeed],
     [t |-> "Tomorrowland tickets available", d |-> "", c |-> StaticFeed("events")],
     [t |-> "Concert on Feb 20 at the arena", d |-> "", c |-> SearchFeed],
     [t |-> "<b>Power cut</b> in Chennai &amp; suburbs tomorrow",
      d |-> "<p>Supply will be <i>suspended</i></p><script>x()</script>", c |-> SearchFeed]}

FilterAge == 2 * 60

InitFilter ==
    /\ tz = 330
    /\ now = At(NowClock)
    /\ settings \in FilterSettings
    /\ \E x \in FilterPool :
          /\ x.c \in feedConfigsOf(settings)
          /\ fetched = <<Fetched(x.t, x.d, PubAgo(FilterAge), x.c)>>

\* --- batches: several items in one run, some sharing an id
MaxBatch == 2

BatchPool ==
    {[item |-> RawItem("Cricket camp scheduled for March 7", "", PubAgo(FilterAge), "g1", "http://a/1"),
      config |-> SearchFeed],
     [item |-> RawItem("Mega sale at the mall on March 7", "", PubAgo(FilterAge), "g1", "http://a/2"),
      config |-> SearchFeed],
     [item |-> RawItem("Concert at the arena on March 7, tickets available", "", PubAgo(FilterAge), "", "http://a/3"),
      config |-> SearchFeed],
     [item |-> RawItem("Heavy rain warning for Chennai", "", PubAgo(FilterAge), "", ""),
      config |-> SearchFeed]}

InitBatch ==
    /\ tz \in TimeZones
    /\ now = At(NowClock)
    /\ settings = NoSettings
    /\ \E n \in 2..MaxBatch : fetched \in [1..n -> BatchPool]

\* --- persistence: a batch with dated items over a store that fails
NullContent == <<[kind |-> "null", days |-> EmptyDays]>>

GarbageContent == <<[kind |-> "garbage", days |-> EmptyDays]>>

InitPersist ==
    /\ tz = 330
    /\ now = At(NowClock)
    /\ settings = NoSettings
    /\ fetched \in [1..2 -> BatchPool]
    /\ \/ storage = <<>> /\ fault \in {"quota", "denied"}
       \/ storage \in {NullContent, GarbageContent} /\ fault = "none"

\* --- sections: more items of one category than a section shows, their days
\* out of order
SectionDays == <<"9", "7", "13", "8", "12", "10", "11">>

InitSections ==
    /\ tz = 330
    /\ now = At(NowClock)
    /\ settings = NoSettings
    /\ \E n \in 5..Len(SectionDays) :
          fetched = [k \in 1..n |->
                       Fetched("Mega sale at the mall on March " \o SectionDays[k], "",
                               PubAgo(FilterAge), SearchFeed)]

\* the feeds were fetched, nothing else has happened
RunStart ==
    /\ StoreIdle
    /\ FirstCall
    /\ NoPage
    /\ dtext = ""
    /\ dpub = <<>>
    /\ dres = <<>>
    /\ dpc = "idle"
    /\ dmax = 0
    /\ dkeys = <<>>
    /\ allItems = <<>>
    /\ pc = "fetched"
    /\ idx = 0
    /\ seenIds = {}
    /\ sections = <<>>
    /\ timelineMap = <<>>
    /\ outcome = <<>>
    /\ organizedData = <<>>

Init ==
    /\ \/ (InitE2E \/ InitFresh \/ InitFilter \/ InitBatch \/ InitSections)
          /\ storage = <<>> /\ fault = "none"
       \/ InitPersist
    /\ RunStart

Next == Normalize \/ ProcessItem \/ Finalize \/ Persist

Spec == Init /\ [][Next]_vars

\* processUpAheadData is called a second time on the items it was called on
InitTwice ==
    /\ InitFilter \/ InitBatch \/ InitSections
    /\ storage = <<>> /\ fault = "none"
    /\ RunStart

NextTwice == Normalize \/ ProcessItem \/ Finalize \/ Rerun

SpecTwice == InitTwice /\ [][NextTwice]_vars

(***************************************************************************)
(* plannerStorage: the operations of the planner, one browser tab each     *)
(***************************************************************************)
\* the records addItem is called with
ItemPool ==
    {[id |-> "c", title |-> "city concert this weekend"],
     [id |-> "e", title |-> ""],
     [id |-> "f", title |-> ""]}

\* the day keys the operations are called with: today, the day seven days
\* back and the day ten days back
KeyToday == UTCDateKey(now)

KeyEdge == UTCDateKey(AddDays(now, -PRUNE_DAYS_PAST))

KeyOld == UTCDateKey(AddDays(now, -10))

MergeKeyArgs == {<<KeyToday>>, <<KeyOld>>, <<KeyEdge, KeyToday>>}

\* the lists of records merge is called with
MergeItemArgs ==
    {<<[id |-> "a", title |-> "City Concert This Weekend"]>>,
     <<[id |-> "b", title |-> "City Concert this Weekend!!"]>>,
     <<[id |-> "a", title |-> "Book Fair"]>>,
     <<[id |-> "e", title |-> ""], [id |-> "f", title |-> ""]>>}

\* the number of planner operations one behaviour begins
MaxOps == 3

\* tab w begins an operation
Begin(w) ==
    /\ wpc[w] = "idle"
    /\ nops < MaxOps
    /\ nops' = nops + 1

\* the operation returns or throws at once
Complete(op, raised, value) ==
    /\ sret' = [op |-> op, raised |-> raised, value |-> value]
    /\ UNCHANGED <<wpc, wop, wdata>>

\* the operation holds the data object it built until its save
Hold(w, op, data) ==
    /\ wpc' = [wpc EXCEPT ![w] = "loaded"]
    /\ wop' = [wop EXCEPT ![w] = op]
    /\ wdata' = [wdata EXCEPT ![w] = data]
    /\ UNCHANGED sret

\* merge from its load to the end of its loop; prune throws on a value that
\* is no object
StartMerge(w, op, dateKeys, items) ==
    /\ \E data \in {load(storage)} :
          IF data.obj THEN Hold(w, op, mergeKeys(prune(data.days), dateKeys, items))
          ELSE Complete(op, TRUE, <<>>)
    /\ wargs' = [wargs EXCEPT ![w] = <<[dateKeys |-> dateKeys, items |-> items]>>]
    /\ UNCHANGED <<storage, fault>>

MergeLoad(w) ==
    /\ Begin(w)
    /\ \E dateKeys \in MergeKeyArgs, items \in MergeItemArgs : StartMerge(w, "merge", dateKeys, items)
    /\ UNCHANGED <<pvars, dvars, uvars>>

AddItemLoad(w) ==
    /\ Begin(w)
    /\ \E item \in ItemPool : StartMerge(w, "addItem", <<KeyToday>>, <<item>>)
    /\ UNCHANGED <<pvars, dvars, uvars>>

\* getAll from its load to its prune
StartGetAll(w, op) ==
    \E data \in {load(storage)} :
        IF data.obj THEN Hold(w, op, prune(data.days))
        ELSE Complete(op, TRUE, <<>>)

GetAllLoad(w) ==
    /\ Begin(w)
    /\ StartGetAll(w, "getAll")
    /\ UNCHANGED <<storage, fault, wargs>>
    /\ UNCHANGED <<pvars, dvars, uvars>>

\* getUpcomingDays up to the save of the getAll it calls
GetUpcomingDaysLoad(w) ==
    /\ Begin(w)
    /\ StartGetAll(w, "getUpcomingDays")
    /\ UNCHANGED <<storage, fault, wargs>>
    /\ UNCHANGED <<pvars, dvars, uvars>>

\* removeItem up to its save; data[dateKey] throws on a value that is no
\* object, and the operation returns without a save when the day is absent
RemoveItemLoad(w) ==
    /\ Begin(w)
    /\ \E dateKey \in {KeyToday, KeyOld}, itemId \in {"a", "e"}, data \in {load(storage)} :
          IF ~data.obj THEN Complete("removeItem", TRUE, <<>>)
          ELSE IF dateKey \notin DOMAIN data.days THEN Complete("removeItem", FALSE, <<>>)
          ELSE Hold(w, "removeItem", removeFrom(data.days, dateKey, itemId))
    /\ UNCHANGED <<storage, fault, wargs>>
    /\ UNCHANGED <<pvars, dvars, uvars>>

\* the save that ends merge, addItem, getAll, getUpcomingDays and removeItem,
\* and the return of the operation
Save(w) ==
    /\ wpc[w] = "loaded"
    /\ storage' = save(storage, wdata[w])
    /\ sret' = [op |-> wop[w], raised |-> FALSE,
                value |-> IF wop[w] = "getAll" THEN wdata[w]
                          ELSE IF wop[w] = "getUpcomingDays" THEN upcomingDays(wdata[w], 14)
                          ELSE <<>>]
    /\ wpc' = [wpc EXCEPT ![w] = "idle"]
    /\ UNCHANGED <<fault, wop, wdata, wargs, nops>>
    /\ UNCHANGED <<pvars, dvars, uvars>>

GetDay(w) ==
    /\ Begin(w)
    /\ \E dateKey \in {KeyToday, KeyOld}, data \in {load(storage)} :
          IF ~data.obj THEN Complete("getDay", TRUE, <<>>)
          ELSE Complete("getDay", FALSE, IF dateKey \in DOMAIN data.days THEN data.days[dateKey] ELSE <<>>)
    /\ UNCHANGED <<storage, fault, wargs>>
    /\ UNCHANGED <<pvars, dvars, uvars>>

\* localStorage.removeItem, which throws when the storage may not be accessed
Clear(w) ==
    /\ Begin(w)
    /\ IF fault = "denied"
       THEN Complete("clear", TRUE, <<>>) /\ UNCHANGED storage
       ELSE Complete("clear", FALSE, <<>>) /\ storage' = <<>>
    /\ UNCHANGED <<fault, wargs>>
    /\ UNCHANGED <<pvars, dvars, uvars>>

\* something else writes the entry: text that does not parse, or the text null
Corrupt ==
    /\ nops < MaxOps
    /\ fault = "none"
    /\ storage' \in {NullContent, GarbageContent}
    /\ UNCHANGED <<fault, wpc, wop, wdata, wargs, sret, nops>>
    /\ UNCHANGED <<pvars, dvars, uvars>>

\* no ingestion run and no call of extractDate
PipelineIdle ==
    /\ settings = NoSettings
    /\ fetched = <<>>
    /\ allItems = <<>>
    /\ pc = "idle"
    /\ idx = 0
    /\ seenIds = {}
    /\ sections = <<>>
    /\ timelineMap = <<>>
    /\ outcome = <<>>
    /\ organizedData = <<>>
    /\ FirstCall
    /\ NoPage
    /\ dtext = ""
    /\ dpub = <<>>
    /\ dres = <<>>
    /\ dpc = "idle"
    /\ dmax = 0
    /\ dkeys = <<>>

\* one tab calls the operations one after the other, from an empty store;
\* the storage works, is full, or may not be accessed
InitStore ==
    /\ tz = 330
    /\ now = At(NowClock)
    /\ storage = <<>>
    /\ fault \in {"none", "quota", "denied"}
    /\ StoreIdle
    /\ PipelineIdle

NextStore ==
    \/ MergeLoad(1) \/ AddItemLoad(1) \/ GetAllLoad(1) \/ GetUpcomingDaysLoad(1)
    \/ RemoveItemLoad(1) \/ Save(1) \/ GetDay(1) \/ Clear(1) \/ Corrupt

SpecStore == InitStore /\ [][NextStore]_vars

\* two tabs each run one merge over the same entry
TabMergeLoad(w) ==
    /\ wpc[w] = "idle"
    /\ wargs[w] = <<>>
    /\ \E dateKeys \in MergeKeyArgs, items \in MergeItemArgs : StartMerge(w, "merge", dateKeys, items)
    /\ UNCHANGED nops
    /\ UNCHANGED <<pvars, dvars, uvars>>

InitTabs ==
    /\ tz = 330
    /\ now = At(NowClock)
    /\ storage = <<>>
    /\ fault = "none"
    /\ StoreIdle
    /\ PipelineIdle

NextTabs == \E w \in Writers : TabMergeLoad(w) \/ Save(w)

SpecTabs == InitTabs /\ [][NextTabs]_vars

\* the user opens and leaves the Up Ahead page; a fetch that was begun
\* returns in the end (every request of the proxy chain times out)
InitPage ==
    /\ tz = 330
    /\ now = At(NowClock)
    /\ storage = <<>>
    /\ fault = "none"
    /\ StoreIdle
    /\ PipelineIdle

NextPage == Mount \/ Unmount \/ handleRetry \/ FetchReturns \/ Expire

SpecPage == InitPage /\ [][NextPage]_vars /\ WF_vars(FetchReturns)

(***************************************************************************)
(* Properties of the ingestion run (under Spec)                            *)
(***************************************************************************)
\* the exits taken before the keyword filters
EarlyExits == {"duplicate", "no_pubdate", "too_old", "stale_marker"}

\* C1: the alert 'Chennai power cut scheduled tomorrow in Adyar', published
\* two hours before the run, under {categories: {alerts}, locations:
\* ['Chennai']}, is classified as alerts, dated one day after its reference
\* (publication) date, passes the location gate and is filed in the timeline
\* day whose date is tomorrow, whenever the run takes place
C1_EndToEnd ==
    (/\ pc = "done"
     /\ settings = E2ESettings
     /\ Len(fetched) = 1
     /\ fetched[1].item.title = E2ETitle
     /\ fetched[1].item.description = ""
     /\ fetched[1].item.pubDate = PubAgo(E2EAge)) =>
        LET item == allItems[1]
            tl == organizedData[1].timeline
        IN  /\ item.category = "alerts"
            /\ item.extractedDate = <<item.pubDate[1] + MinutesPerDay>>
            /\ outcome[1] = "kept"
            /\ Len(tl) = 1
            /\ tl[1].date = CivilOfDay(LocalDay(now) + 1)
            /\ Len(tl[1].items) = 1
            /\ tl[1].items[1].id = item.id

\* the configured hideOlderThanHours, 60 when none is configured
ConfiguredHours(s) == IF s.hideOlderThanHours # <<>> THEN s.hideOlderThanHours[1] ELSE 60

\* the limit the freshness gate is to apply to a category, in hours
ClaimedLimitHours(cat, s) ==
    CASE cat = "weather_alerts" -> Min(ConfiguredHours(s), 6)
      [] cat = "alerts" -> Min(ConfiguredHours(s), 12)
      [] cat = "festivals" -> Min(ConfiguredHours(s), 336)
      [] OTHER -> ConfiguredHours(s)

\* C2: the freshness check drops an item exactly when it has no valid publish
\* timestamp or its age exceeds min(configured hideOlderThanHours, category
\* override), with overrides weather_alerts 6h, alerts 12h, festivals 336h
\* and the default 60h; a weather_alerts item 7 hours old is dropped under
\* hideOlderThanHours = 60 and an alerts item 10 hours old is not
C2_FreshnessGate ==
    \A k \in 1..Len(outcome) :
        outcome[k] # "duplicate" =>
            LET pd == fetched[k].item.pubDate
                valid == pd # <<>> /\ pd[1].valid
                cat == allItems[k].category
                dropped == outcome[k] \in {"no_pubdate", "too_old"}
            IN  /\ dropped <=> (~valid \/ now - pd[1].t > ClaimedLimitHours(cat, settings) * 60)
                /\ (/\ valid /\ cat = "weather_alerts" /\ now - pd[1].t = 7 * 60
                    /\ settings.hideOlderThanHours = <<60>>) => dropped
                /\ (/\ valid /\ cat = "alerts" /\ now - pd[1].t = 10 * 60
                    /\ ConfiguredHours(settings) >= 10) => ~dropped

C2_Witness ==
    /\ pc = "done"
    /\ settings.hideOlderThanHours = <<60>>
    /\ Len(allItems) = 1
    /\ allItems[1].category = "weather_alerts"
    /\ allItems[1].pubDate = <<now - 7 * 60>>
    /\ outcome = <<"too_old">>

\* w occurs in text as a whole word: delimited on both sides by a character
\* that is no word character, or by an end of the text
WholeWordIn(text, w) ==
    \E i \in 1..(Len(text) - Len(w) + 1) :
        /\ LitAt(text, i, w)
        /\ CharAt(text, i - 1) \notin WordChars
        /\ CharAt(text, i + Len(w)) \notin WordChars

ClaimedMatch(text, kw) ==
    IF \E i \in 1..Len(kw) : CharAt(kw, i) = " "
    THEN \E i \in 1..(Len(text) - Len(kw) + 1) : SubSeq(text, i, i + Len(kw) - 1) = kw
    ELSE WholeWordIn(text, kw)

SomeClaimedMatch(text, list) ==
    \E k \in 1..Len(list) : ClaimedMatch(text, toLowerCase(list[k]))

\* C3: the negative table and the category-positive table match a keyword
\* without a space only as a whole word and a keyword with a space by
\* containment; 'preview screening announced' is not matched by 'review',
\* 'this movie review is harsh' is matched and dropped
C3_WordBoundary ==
    \A k \in 1..Len(outcome) :
        LET item == allItems[k]
            ft == FullTextOf(item)
        IN  /\ (outcome[k] \notin EarlyExits /\ ~TextIsRoundup(ft)) =>
                  (outcome[k] = "negative" <=> SomeClaimedMatch(ft, mergedNegatives(settings)))
            /\ (/\ outcome[k] \notin EarlyExits \cup {"negative"}
                /\ item.category \in {"movies", "events", "sports", "shopping"}
                /\ forwardScoreOf(ft) = 0) =>
                  (outcome[k] = "not_relevant" <=>
                      ~SomeClaimedMatch(ft, mergedPositives(settings, item.category)))
            /\ item.title = "preview screening announced" => outcome[k] # "negative"
            /\ (item.title = "this movie review is harsh" /\ outcome[k] \notin EarlyExits) =>
                  outcome[k] = "negative"

C3_Witness ==
    /\ pc = "done"
    /\ Len(allItems) = 1
    /\ allItems[1].title = "preview screening announced"
    /\ includes(FullTextOf(allItems[1]), "review")
    /\ outcome = <<"kept">>

\* C4: a fresh item whose text matches a negative keyword is dropped unless
\* it is flagged as a roundup; the flag is decided by the title alone, and an
\* item whose isRoundup flag is false is never exempted
C4_RoundupExemption ==
    \A k \in 1..Len(outcome) :
        LET item == allItems[k]
            ft == FullTextOf(item)
        IN  /\ item.isRoundup = TitleIsRoundup(item.title)
            /\ (/\ outcome[k] \notin EarlyExits
                /\ SomeKeyword(ft, mergedNegatives(settings))) =>
                  (outcome[k] = "negative" <=> ~item.isRoundup)

\* the locations the settings passed to the run configure, else the fallback
ConfiguredLocations(s) ==
    IF s.locations # <<>> /\ Len(s.locations[1]) > 0 THEN s.locations[1] ELSE FALLBACK_LOCATIONS

\* C5: an alerts or civic item that passed the earlier layers survives the
\* location gate exactly when one of the locations of the settings passed to
\* the run (their locations list, the fallback only when none is configured)
\* occurs in its lower-cased text; other categories are not affected
C5_LocationGate ==
    \A k \in 1..Len(outcome) :
        LET item == allItems[k]
            ft == FullTextOf(item)
            locs == ConfiguredLocations(settings)
        IN  /\ (/\ outcome[k] \notin EarlyExits \cup {"negative", "not_relevant"}
                /\ item.category \in {"alerts", "civic"}) =>
                  (outcome[k] # "no_location" <=>
                      \E j \in 1..Len(locs) : includes(ft, toLowerCase(locs[j])))
            /\ item.category \notin {"alerts", "civic"} => outcome[k] # "no_location"

\* the keywords the settings handed to the run supply: their keywords object,
\* as the Up Ahead page hands it over, or the one nested under upAhead
SuppliedKeywords(s) == IF s.keywords # <<>> THEN s.keywords[1] ELSE userKeywords(s)

\* C6: an item of movies, events, sports or shopping that passed the negative
\* filter is kept by Layer 3 exactly when it matches a positive keyword of
\* its category (the built-in table merged with the positives the user
\* supplied for that category) or its forwardScore is above 0; items of
\* other categories are never dropped by Layer 3
C6_PositiveFilter ==
    \A k \in 1..Len(outcome) :
        outcome[k] \notin EarlyExits \cup {"negative"} =>
            LET item == allItems[k]
                ft == FullTextOf(item)
                positives == ListOf(CATEGORY_POSITIVE_KEYWORDS, item.category)
                                \o ListOf(SuppliedKeywords(settings), item.category)
            IN  (outcome[k] # "not_relevant") <=>
                    \/ item.category \notin {"movies", "events", "sports", "shopping"}
                    \/ SomeKeyword(ft, positives)
                    \/ forwardScoreOf(ft) > 0

\* the keyword groups in the order the classifier is said to test them
ClaimedGroups ==
    <<[label |-> "alerts", words |-> <<"power cut", "power shutdown", "tangedco", "tneb">>],
      [label |-> "alerts", words |-> <<"traffic advisory", "road closure", "water supply">>],
      [label |-> "weather_alerts",
       words |-> <<"cyclone", "heavy rain", "weather warning", "heat wave", "imd">>],
      [label |-> "movies",
       words |-> <<"movie", "release", "trailer", "film", "cinema", "ott", "booking">>],
      [label |-> "sports",
       words |-> <<"cricket", "ipl", "match", "football", "kabaddi", "tournament">>],
      [label |-> "festivals",
       words |-> <<"festival", "holiday", "jayanti", "puja", "pongal", "diwali", "ramadan", "eid">>],
      [label |-> "shopping",
       words |-> <<"sale", "offer", "discount", "shopping", "deal", "expo">>],
      [label |-> "civic",
       words |-> <<"minister", "vip visit", "rally", "protest", "bandh", "corporation">>],
      [label |-> "events",
       words |-> <<"concert", "exhibition", "show", "workshop", "theatre", "opera", "sabha", "comedy">>],
      [label |-> "alerts", words |-> <<"alert", "warning", "shut">>]>>

ClaimedCategory(text) ==
    LET t == toLowerCase(text)
        hits == {g \in 1..Len(ClaimedGroups) :
                    \E w \in 1..Len(ClaimedGroups[g].words) : includes(t, ClaimedGroups[g].words[w])}
    IN  IF hits = {} THEN "general"
        ELSE ClaimedGroups[CHOOSE g \in hits : \A o \in hits : g <= o].label

\* C7: the classifier gives every text exactly one of the nine labels: that of
\* the first group, in the order power alerts, traffic/water alerts, weather,
\* movies, sports, festivals, shopping, civic, events, generic alerts, with a
\* keyword contained in the lower-cased text, and general when there is none
C7_Classifier ==
    \A k \in 1..Len(allItems) :
        fetched[k].config.type = "search" =>
            /\ allItems[k].category = ClaimedCategory(allItems[k].title \o " " \o allItems[k].description)
            /\ allItems[k].category \in
                  {"movies", "events", "festivals", "alerts", "sports", "shopping", "civic",
                   "weather_alerts", "general"}

C7_Witness ==
    /\ Len(allItems) = 1
    /\ fetched[1].config.type = "search"
    /\ allItems[1].title = "movie show timings announced"
    /\ allItems[1].category = "movies"

(***************************************************************************)
(* Properties of the date extraction (under SpecDate)                      *)
(***************************************************************************)
\* the reference date of the call: pubDate || new Date()
RefOfCall == IF dpub # <<>> THEN dpub[1] ELSE now

\* what each layer alone makes of the text, in the order the layers are named
LayerResults(text, ref) ==
    <<extractISO(text, ref), extractNamed(text, ref), extractRange(text, ref),
      extractRelative(text, ref), extractDeadline(text, ref)>>

FirstLayerResult(text, ref) ==
    LET r == LayerResults(text, ref)
        hits == {k \in 1..Len(r) : r[k] # <<>>}
    IN  IF hits = {} THEN <<>> ELSE r[CHOOSE k \in hits : \A o \in hits : k <= o]

\* C8: extractDate returns the result of the first of the five layers, in the
\* order ISO/numeric, named, range, relative, deadline, that matches; a text
\* holding both a numeric date and a relative anchor yields the numeric date;
\* and it returns nothing only when no layer matches
C8_LayerOrder ==
    dpc = "done" =>
        LET c == DateCase(dtext)
            r == LayerResults(dtext, RefOfCall)
        IN  /\ dres = FirstLayerResult(dtext, RefOfCall)
            /\ (c.form \in {"iso", "numeric"} /\ c.rel) =>
                  /\ dres # <<>>
                  /\ dres[1].type = c.form
                  /\ dres[1].start = NewDate(c.y, c.m, c.d)
            /\ (dres = <<>>) <=> (\A k \in 1..Len(r) : r[k] = <<>>)

C8_Witness ==
    /\ dpc = "done"
    /\ dtext = "meet 2026-02-14 or tomorrow"
    /\ dres # <<>>
    /\ dres[1].type = "iso"
    /\ extractRelative(dtext, RefOfCall) # <<>>

\* the ways of writing a date with its year that layers 1 and 2 recognise
ExplicitYearForms == {"iso", "numeric", "mdy_comma", "mdy", "dmy"}

\* C9 (as amended): a text whose first date is written with a 4-digit year as
\* YYYY-MM-DD, DD/MM/YYYY, DD-MM-YYYY, '<Month> <Day>[,] <Year>' or
\* '<Day> <Month> <Year>' (no comma before the year) yields, from layer 1 or
\* 2, a date of exactly that year, whatever the reference date
C9_ExplicitYearKept ==
    dpc = "done" =>
        LET c == DateCase(dtext)
        IN  c.form \in ExplicitYearForms =>
                /\ dres # <<>>
                /\ dres[1].type \in {"iso", "numeric", "named"}
                /\ getFullYear(dres[1].start) = c.y

C9_Witness ==
    /\ dpc = "done"
    /\ dtext = "14 February 2025 gala"
    /\ dpub # <<>>
    /\ getFullYear(dpub[1]) = 2026
    /\ dres # <<>>
    /\ getFullYear(dres[1].start) = 2025

\* C9 as stated: the same for '<Day> <Month>, <Year>' with a comma before the
\* year as well
C9_AsStated ==
    dpc = "done" =>
        LET c == DateCase(dtext)
        IN  c.form \in ExplicitYearForms \cup {"dmy_comma"} =>
                /\ dres # <<>>
                /\ dres[1].type \in {"iso", "numeric", "named"}
                /\ getFullYear(dres[1].start) = c.y

\* C10: a month/day written without a year is dated in the reference year,
\* unless that date lies more than 30 days before the reference date, and
\* then in the reference year plus one; so the date is never more than 30
\* days before the reference date
C10_YearInference ==
    dpc = "done" =>
        LET c == DateCase(dtext)
            ref == RefOfCall
            thisYear == NewDate(getFullYear(ref), c.m, c.d)
            nextYear == NewDate(getFullYear(ref) + 1, c.m, c.d)
            expected == IF ref - thisYear > 30 * MinutesPerDay THEN nextYear ELSE thisYear
        IN  c.form \in {"md", "dm"} =>
                /\ dres # <<>>
                /\ dres[1].type = "named"
                /\ dres[1].start = expected
                /\ ref - dres[1].start <= 30 * MinutesPerDay

C10_Witness ==
    /\ dpc = "done"
    /\ dtext = "concert on Jan 10"
    /\ dpub # <<>>
    /\ getFullYear(dpub[1]) = 2026 /\ getMonth(dpub[1]) = 1 /\ getDate(dpub[1]) = 9
    /\ LocalMinute(dpub[1]) = 1
    /\ dres # <<>>
    /\ getFullYear(dres[1].start) = 2027

\* the reference date 2026-01-10 (09:00 local time)
RefJan10 == At([y |-> 2026, m |-> 0, d |-> 10, min |-> 540])

\* C11 (as amended): with reference date 2026-01-10, 'event on March 5'
\* yields a date in 2026, and so does 'event on Dec 20' (20 December 2026 is
\* not in the past of the reference date, so the year is not changed)
C11_ExampleYears ==
    (dpc = "done" /\ dpub = <<RefJan10>>) =>
        /\ dtext = "event on March 5" =>
              dres # <<>> /\ dres[1].start = NewDate(2026, 2, 5)
        /\ dtext = "event on Dec 20" =>
              dres # <<>> /\ dres[1].start = NewDate(2026, 11, 20)

C11_Witness ==
    /\ dpc = "done"
    /\ dpub = <<RefJan10>>
    /\ dtext = "event on Dec 20"
    /\ dres # <<>>
    /\ getFullYear(dres[1].start) = 2026

\* C11 as stated: 'event on March 5' yields a date in 2026 and 'event on
\* Dec 20' a date in 2025
C11_AsStated ==
    (dpc = "done" /\ dpub = <<RefJan10>>) =>
        /\ dtext = "event on March 5" =>
              dres # <<>> /\ getFullYear(dres[1].start) = 2026
        /\ dtext = "event on Dec 20" =>
              dres # <<>> /\ getFullYear(dres[1].start) = 2025

\* the last day, as [m, d], of the range written in a text of form "range"
RangeEnd(text) ==
    CASE text = "fair from March 3 to 9" -> [m |-> 2, d |-> 9]
      [] OTHER -> [m |-> 1, d |-> 24]

\* C12: a text holding a date range '<Month> D to/through/- <Month> D',
\* '<Month> D to D' or 'D to D <Month>', and no ISO or numeric date, yields a
\* result of kind range whose start is the first day of the range and whose
\* end is its last day, both set
C12_RangeExtraction ==
    dpc = "done" =>
        LET c == DateCase(dtext)
        IN  c.form = "range" =>
                /\ dres # <<>>
                /\ dres[1].type = "range"
                /\ getMonth(dres[1].start) = c.m /\ getDate(dres[1].start) = c.d
                /\ dres[1].end # <<>>
                /\ getMonth(dres[1].end[1]) = RangeEnd(dtext).m
                /\ getDate(dres[1].end[1]) = RangeEnd(dtext).d

\* C13: a text in which a deadline anchor is followed by a named date, such
\* as 'ends Feb 12' or 'last date March 1', yields a result of kind deadline
\* whose start is the reference date and whose end is the parsed date
C13_DeadlineExtraction ==
    dpc = "done" =>
        LET c == DateCase(dtext)
        IN  c.form = "deadline" =>
                /\ dres # <<>>
                /\ dres[1].type = "deadline"
                /\ dres[1].start = RefOfCall
                /\ dres[1].end # <<>>
                /\ getMonth(dres[1].end[1]) = c.m /\ getDate(dres[1].end[1]) = c.d

\* C14: expandDateKeys returns the consecutive calendar days from the day of
\* start to the day of end (of start when there is no end), in ascending
\* order and cut off after maxDays entries; the first key is the calendar day
\* of start; the result is empty when there is no start or the end's day
\* precedes the start's
C14_ExpandDateKeys ==
    dpc = "expanded" =>
        LET first == LocalDay(dres[1].start)
            last == IF dres[1].end # <<>> THEN LocalDay(dres[1].end[1]) ELSE first
            n == IF dres = <<>> \/ last < first THEN 0 ELSE Min(last - first + 1, dmax)
        IN  /\ Len(dkeys) = n
            /\ \A i \in 1..n : dkeys[i] = CivilOfDay(first + i - 1)

(***************************************************************************)
(* Properties of the batch (under Spec)                                    *)
(***************************************************************************)
\* the ids filed in the timeline days of tl, day by day
TimelineIds(tl) == [d \in 1..Len(tl) |-> [i \in 1..Len(tl[d].items) |-> tl[d].items[i].id]]

NoIdTwice(tl) ==
    \A d1 \in 1..Len(tl), d2 \in 1..Len(tl) :
        \A i1 \in 1..Len(tl[d1].items), i2 \in 1..Len(tl[d2].items) :
            TimelineIds(tl)[d1][i1] = TimelineIds(tl)[d2][i2] => (d1 = d2 /\ i1 = i2)

\* C15: of the items of a run that share an id only the first in input order
\* is processed, every later one is discarded; no id occurs twice across the
\* timeline days, and the sections hold at most one entry per id
C15_BatchDedup ==
    pc \in {"processing", "done"} =>
        /\ \A k \in 1..Len(outcome) :
              (outcome[k] = "duplicate") <=> (\E j \in 1..(k - 1) : allItems[j].id = allItems[k].id)
        /\ NoIdTwice(timelineMap)
        /\ organizedData # <<>> => NoIdTwice(organizedData[1].timeline)
        /\ Cardinality({x \in SectionNames \X (1..Len(outcome)) : x[2] <= Len(sections[x[1]])})
              <= Cardinality({allItems[k].id : k \in {j \in 1..Len(outcome) : outcome[j] = "kept"}})

C15_Witness ==
    /\ pc = "done"
    /\ Len(allItems) = 2
    /\ allItems[1].id = allItems[2].id
    /\ allItems[1].title # allItems[2].title
    /\ outcome = <<"kept", "duplicate">>
    /\ Len(organizedData[1].timeline) = 1
    /\ Len(organizedData[1].timeline[1].items) = 1

\* the calendar day the section entry shows is earlier than the day `days`
\* days before today
EntryBefore(e, days) ==
    KeyBefore([date |-> e.date[1]], [date |-> CivilOfDay(LocalDay(now) - days)])

\* what C21 asks of an entry of section c
EntryDated(c, e) ==
    \/ c \in {"alerts", "weather_alerts"}
    \/ e.date = <<>> /\ e.isRoundup
    \/ e.date # <<>> /\ ~EntryBefore(e, IF c = "festivals" THEN 3 ELSE 0)

\* C21: every entry of movies, events, sports, shopping and civic comes from
\* a roundup without an extracted date or has an extracted date not earlier
\* than the start of today; every entry of festivals comes from a roundup
\* without a date or has a date not more than 3 days before the start of
\* today; alerts and weather_alerts need no date; a section of the output
\* holds at most 5 entries
C21_SectionDates ==
    /\ pc # "fetched" => \A c \in SectionNames : \A k \in 1..Len(sections[c]) :
                             EntryDated(c, sections[c][k])
    /\ organizedData # <<>> =>
          \A c \in SectionNames :
              /\ Len(organizedData[1].sections[c]) <= 5
              /\ \A k \in 1..Len(organizedData[1].sections[c]) :
                     EntryDated(c, organizedData[1].sections[c][k])

\* seven dated sales were kept and the output shows five of them
C21_Witness ==
    /\ pc = "done"
    /\ Len(sections["shopping"]) = 7
    /\ Len(organizedData[1].sections["shopping"]) = 5
    /\ organizedData[1].sections["shopping"][1].date # <<>>

\* the target date C22 gives an item that survived the filters
ClaimedTarget(item) ==
    IF item.extractedDate # <<>> THEN item.extractedDate
    ELSE IF item.category \in {"alerts", "weather_alerts"} /\ item.pubDate # <<>>
            /\ now - item.pubDate[1] < 24 * 60
    THEN <<StartOfDay(now)>>
    ELSE IF item.isRoundup THEN <<StartOfDay(now)>>
    ELSE <<>>

\* the places of the timeline that hold the id: <<day, position>>
PlacesOf(tl, id) ==
    UNION {{<<k, j>> : j \in {x \in 1..Len(tl[k].items) : tl[k].items[x].id = id}} :
              k \in 1..Len(tl)}

\* C22: an item that survived all filters is filed by its extracted start
\* date if it has one, else under today if it is an alert or weather alert
\* published within the last 24 hours, else under today if it is a roundup,
\* else it has no target date; an item without a target date is in no
\* timeline day, and every item is in at most one timeline day (in the one
\* day of its target date when that is not before the start of today)
C22_TargetDate ==
    organizedData # <<>> =>
        \A k \in 1..Len(allItems) : outcome[k] = "kept" =>
            \E target \in {ClaimedTarget(allItems[k])},
               places \in {PlacesOf(organizedData[1].timeline, allItems[k].id)} :
                /\ Cardinality(places) <= 1
                /\ target = <<>> => places = {}
                /\ (target # <<>> /\ target[1] >= StartOfDay(now)) =>
                      \E pl \in places : organizedData[1].timeline[pl[1]].date = UTCDateKey(target[1])
                /\ (target # <<>> /\ target[1] < StartOfDay(now)) => places = {}

\* a kept roundup without a date was filed under today
C22_Witness ==
    /\ pc = "done"
    /\ \E k \in 1..Len(allItems) :
          /\ outcome[k] = "kept"
          /\ allItems[k].extractedDate = <<>> /\ allItems[k].isRoundup
          /\ allItems[k].category \notin {"alerts", "weather_alerts"}
          /\ PlacesOf(organizedData[1].timeline, allItems[k].id) # {}

\* the number of forward-looking signals in the text of the item of the
\* batch that has the id
SignalsOf(id) ==
    forwardScoreOf(FullTextOf(allItems[CHOOSE k \in 1..Len(allItems) : allItems[k].id = id]))

\* C23: in the output the timeline days are in strictly ascending order of
\* date key, the items of a day are in non-increasing order of the number of
\* forward-looking signals in their text, and no item of the output timeline
\* has the score field
C23_TimelineOrder ==
    organizedData # <<>> =>
        \E tl \in {organizedData[1].timeline} :
            /\ \A k \in 1..(Len(tl) - 1) : KeyBefore(tl[k], tl[k + 1])
            /\ \A k \in 1..Len(tl) : \A j \in 1..Len(tl[k].items) :
                  /\ "forwardScore" \notin DOMAIN tl[k].items[j]
                  /\ j < Len(tl[k].items) =>
                        SignalsOf(tl[k].items[j].id) >= SignalsOf(tl[k].items[j + 1].id)

\* a day received an item with fewer signals before one with more, and the
\* output has the two in the other order
C23_Witness ==
    /\ pc = "done"
    /\ \E k \in 1..Len(timelineMap) : \E j \in 1..(Len(timelineMap[k].items) - 1) :
          timelineMap[k].items[j].forwardScore < timelineMap[k].items[j + 1].forwardScore
    /\ \E k \in 1..Len(organizedData[1].timeline) :
          Len(organizedData[1].timeline[k].items) >= 2

\* the calendar date, on the client's clock, of the day `days` days from today
CalendarDay(days) == CivilOfDay(LocalDay(now) + days)

\* C24: the date key of every timeline day is the calendar date of the
\* target date of every item in it, and the day's label is 'Today' exactly
\* when the key is today's date and 'Tomorrow' exactly when the key is
\* tomorrow's date, in every time zone and at every time of day
C24_TimelineKeys ==
    organizedData # <<>> =>
        \A d \in {organizedData[1].timeline[k] : k \in 1..Len(organizedData[1].timeline)} :
            /\ \A j \in 1..Len(d.items) : \A k \in 1..Len(allItems) :
                  (outcome[k] = "kept" /\ allItems[k].id = d.items[j].id) =>
                      d.date = CivilOfDay(LocalDay(ClaimedTarget(allItems[k])[1]))
            /\ d.dayLabel.kind = "Today" <=> d.date = CalendarDay(0)
            /\ d.dayLabel.kind = "Tomorrow" <=> d.date = CalendarDay(1)

\* the items of the timeline, day after day
RECURSIVE FlatItems(_)
FlatItems(tl) == IF tl = <<>> THEN <<>> ELSE Head(tl).items \o FlatItems(Tail(tl))

\* the calendar day of the target date of the kept item that has the id
TargetDayOf(id) ==
    CivilOfDay(LocalDay(ClaimedTarget(allItems[CHOOSE k \in 1..Len(allItems) :
                                                  outcome[k] = "kept" /\ allItems[k].id = id])[1]))

\* C25: the weekly plan has 7 entries, named by the weekdays of the 7
\* calendar days that start today; the entry of a day lists, in timeline
\* order, exactly the timeline items whose target date is that calendar day
C25_WeeklyPlan ==
    organizedData # <<>> =>
        \E plan \in {organizedData[1].weekly_plan}, flat \in {FlatItems(organizedData[1].timeline)} :
            /\ Len(plan) = 7
            /\ \A i \in 1..Len(plan) :
                  /\ plan[i].dayName = getDay(AddDays(StartOfDay(now), i - 1))
                  /\ \E due \in {SelectSeq(flat, LAMBDA t : TargetDayOf(t.id) = CalendarDay(i - 1))} :
                        plan[i].items = [j \in 1..Len(due) |->
                                            [title |-> due[j].title, type |-> due[j].type,
                                             link |-> due[j].link]]

\* the category has a flag in settings.categories, and the flag is off
DisabledIn(s, cat) ==
    /\ s.categories # <<>>
    /\ cat \in DOMAIN s.categories[1]
    /\ ~s.categories[1][cat]

\* C29: no item whose category is switched off in the settings' category
\* flags is in the timeline, in a section or in the weekly plan of the run,
\* whichever feed or search query returned it
C29_DisabledExcluded ==
    organizedData # <<>> =>
        \A k \in 1..Len(allItems) :
            DisabledIn(settings, allItems[k].category) =>
                \E out \in {organizedData[1]} :
                    /\ \A d \in 1..Len(out.timeline) : \A i \in 1..Len(out.timeline[d].items) :
                           out.timeline[d].items[i].id # allItems[k].id
                    /\ \A c \in SectionNames : \A i \in 1..Len(out.sections[c]) :
                           out.sections[c][i].title # allItems[k].title
                    /\ \A d \in 1..Len(out.weekly_plan) : \A i \in 1..Len(out.weekly_plan[d].items) :
                           out.weekly_plan[d].items[i].title # allItems[k].title

\* CATEGORY_MAX_AGE_HOURS.festivals, the window the festivals are meant to have
FESTIVAL_WINDOW_HOURS == 336

\* C27: under the default settings (no hideOlderThanHours), a festivals item
\* with a valid publish timestamp at most 336 hours before now is not dropped
\* by the publication-freshness check
C27_FestivalWindow ==
    \A k \in 1..Len(outcome) :
        (/\ settings.hideOlderThanHours = <<>>
         /\ allItems[k].category = "festivals"
         /\ outcome[k] # "duplicate"
         /\ fetched[k].item.pubDate # <<>>
         /\ fetched[k].item.pubDate[1].valid
         /\ now - fetched[k].item.pubDate[1].t <= FESTIVAL_WINDOW_HOURS * 60)
        => outcome[k] \notin {"no_pubdate", "too_old"}

(***************************************************************************)
(* Properties of a repeated call of processUpAheadData (under SpecTwice)   *)
(***************************************************************************)
\* the second call has returned
SecondDone == run = 2 /\ pc = "done"

\* C26: with the clock held fixed, a second call of processUpAheadData on the
\* same items and settings returns the timeline, sections and weekly_plan the
\* first call returned, whatever _wbCache holds and whatever _forwardScore
\* the first call left on the items
C26_Idempotent ==
    SecondDone => organizedData = firstData

\* a second call has returned a timeline that is not empty, for items that
\* carried a score of the first call, over patterns the first call compiled
C26_Witness ==
    /\ SecondDone
    /\ organizedData[1].timeline # <<>>
    /\ \E k \in 1..Len(allItems) : allItems[k].forwardScore # <<>> /\ outcome[k] = "kept"
    /\ \E k \in 1..Len(allItems) : outcome[k] # "kept"
    /\ wbCache # {}

(***************************************************************************)
(* Properties of the planner store (under SpecStore)                       *)
(***************************************************************************)
ConcertA == [id |-> "a", title |-> "City Concert This Weekend"]

ConcertB == [id |-> "b", title |-> "City Concert this Weekend!!"]

ConcertC == [id |-> "c", title |-> "city concert this weekend"]

\* the list stored for the day, <<>> when the day or the entry is absent
StoredDay(st, dateKey) ==
    IF st # <<>> /\ st[1].kind = "json" /\ dateKey \in DOMAIN st[1].days
    THEN st[1].days[dateKey] ELSE <<>>

\* the records of the list without the time they were added
Bare(list) == [k \in 1..Len(list) |-> [id |-> list[k].id, title |-> list[k].title]]

\* the step that ends a merge of the one item into today's key, begun when
\* the day held the record of ConcertA and nothing else
MergesOnto(item) ==
    /\ fault = "none"
    /\ wpc[1] = "loaded" /\ wpc'[1] = "idle"
    /\ wop[1] \in {"merge", "addItem"}
    /\ wargs[1] = <<[dateKeys |-> <<KeyToday>>, items |-> <<item>>]>>
    /\ Bare(StoredDay(storage, KeyToday)) = <<ConcertA>>

\* C16 (amended): merging two items with different ids and the titles 'City
\* Concert This Weekend' and 'City Concert this Weekend!!' into the same day
\* key leaves two stored records for that day (three of the five words are
\* shared, a similarity of 0.6, which is not above 0.7); a title that differs
\* only in letter case is treated as a duplicate and leaves one record
C16_NearDuplicates ==
    [][/\ MergesOnto(ConcertB) => Bare(StoredDay(storage', KeyToday)) = <<ConcertA, ConcertB>>
       /\ MergesOnto(ConcertC) => Bare(StoredDay(storage', KeyToday)) = <<ConcertA>>]_vars

\* both titles were merged into today's key, the second after the first
C16_Witness ==
    /\ fault = "none"
    /\ wpc[1] = "idle"
    /\ sret.op = "merge" /\ ~sret.raised
    /\ wargs[1] = <<[dateKeys |-> <<KeyToday>>, items |-> <<ConcertB>>]>>
    /\ Bare(StoredDay(storage, KeyToday)) = <<ConcertA, ConcertB>>

\* C16 as stated: merging the two titles into the same day key leaves exactly
\* one stored record for that day
C16_AsStated ==
    [][MergesOnto(ConcertB) => Len(StoredDay(storage', KeyToday)) = 1]_vars

\* the day lists persisted, none when the entry is absent or does not parse
\* to an object
StoredLists == IF storage # <<>> /\ storage[1].kind = "json"
               THEN {storage[1].days[k] : k \in DOMAIN storage[1].days} ELSE {}

\* the ids of the items processUpAheadData ran to the end for
KeptIds == {allItems[k].id : k \in {x \in 1..Len(outcome) : outcome[x] = "kept"}}

\* C28: when fetchUpAheadData has run its persistence step over a store that
\* held no record, every record of the store is the record of an item the
\* aggregator kept: a discarded item produces none
C28_OnlyKept ==
    pc = "returned" =>
        \A list \in StoredLists : \A i \in 1..Len(list) : list[i].id \in KeptIds

\* the titles are more than 0.7 similar
Similar(a, b) == \E sim \in {similarity(a, b)} : 10 * sim.n > 7 * sim.d

\* C17 (amended): from an empty store, after any sequence of merge, addItem,
\* removeItem, getAll and clear operations, no day's list holds two records
\* with the same id, and no day's list holds two records with non-empty
\* titles whose word-set Jaccard similarity is greater than 0.7
C17_Uniqueness ==
    \A list \in StoredLists : \A i, j \in 1..Len(list) :
        i # j => /\ list[i].id # list[j].id
                 /\ (list[i].title # "" /\ list[j].title # "")
                       => ~Similar(list[i].title, list[j].title)

\* a day holds two records with titles, after three operations
C17_Witness ==
    /\ nops = MaxOps
    /\ wpc[1] = "idle"
    /\ \E list \in StoredLists : \E i, j \in 1..Len(list) :
          i # j /\ list[i].title # "" /\ list[j].title # ""

\* C17 as stated: no day's list holds two records with the same id, and no
\* day's list holds two records whose titles are more than 0.7 similar
C17_AsStated ==
    \A list \in StoredLists : \A i, j \in 1..Len(list) :
        i # j => /\ list[i].id # list[j].id
                 /\ ~Similar(list[i].title, list[j].title)

\* the day keys persisted
StoredKeys == IF storage # <<>> /\ storage[1].kind = "json" THEN DOMAIN storage[1].days ELSE {}

\* the day key is more than 7 days before the current date
TooOld(dateKey) ==
    KeyBefore([date |-> dateKey], [date |-> CivilOfDay(LocalDay(now) - PRUNE_DAYS_PAST)])

\* C18: when getDay, getAll, getUpcomingDays or merge completes, the
\* persisted store holds no day key that is more than 7 days before the
\* current date, keys added by that very merge included
C18_Pruning ==
    (/\ fault = "none"
     /\ wpc[1] = "idle"
     /\ sret.op \in {"getDay", "getAll", "getUpcomingDays", "merge"}
     /\ ~sret.raised) =>
        \A k \in StoredKeys : ~TooOld(k)

\* the entry cannot be read as an object of days: access is denied, or the
\* text stored does not parse or parses to null
Unreadable == fault = "denied" \/ storage \in {NullContent, GarbageContent}

\* C20: when the storage throws or the stored content is corrupt, every
\* planner operation still completes without raising, a read of an entry
\* that cannot be read returns what the empty store returns, and a write
\* that fails leaves the persisted content as it was
C20_SilentFailure ==
    [][/\ ~sret'.raised
       /\ (Unreadable /\ nops' # nops /\ sret' # sret /\ sret'.op = "getDay") => sret'.value = <<>>
       /\ (fault # "none" /\ wpc[1] = "loaded" /\ wpc'[1] = "idle") => storage' = storage]_vars

(***************************************************************************)
(* Properties of two tabs that merge (under SpecTabs)                      *)
(***************************************************************************)
\* the content persisted when the merge of tab first runs from load to save
\* on the empty store and the merge of tab second after it
SerialOutcome(first, second) ==
    merge(merge(<<>>, wargs[first][1].dateKeys, wargs[first][1].items).storage,
          wargs[second][1].dateKeys, wargs[second][1].items).storage

\* C19: when two tabs each perform a merge over the shared entry, the
\* persisted outcome is that of the two merges run one after the other in
\* some order
C19_Serialized ==
    (/\ \A w \in Writers : wpc[w] = "idle" /\ wargs[w] # <<>>) =>
        storage \in {SerialOutcome(1, 2), SerialOutcome(2, 1)}

(***************************************************************************)
(* Properties of the Up Ahead page (under SpecPage)                        *)
(***************************************************************************)
\* the page shows the spinner
PageLoading == mounted /\ loading

\* the page awaits a fetch whose result it will take
FetchInFlight == \E f \in inflight : f.live

\* C30: the page is never in the loading state with no fetch in flight, and
\* it leaves the loading state once the fetch completes or fails: pressing
\* Retry, wherever the button is shown, starts a fetch and makes progress
C30_RetryProgress ==
    /\ [](PageLoading => FetchInFlight)
    /\ (PageLoading ~> ~PageLoading)

====
